---- MODULE Spec2Model ----
(***************************************************************************)
(* Player-ledger engine of bot.py: the Firestore collections players,      *)
(* teams, records and aliases, and the prefix commands that read and write *)
(* them.  Strings are sequences of one-character strings, so that          *)
(* normalize_nick and normalize_team_name are computed, not assumed.       *)
(***************************************************************************)
EXTENDS Integers, Sequences, FiniteSets, TLC

VARIABLES
    db,         \* the Firestore client: [players, teams, records, aliases]
    verify_mc,  \* VERIFY_MC, read from the environment at start-up
    mc_cache,   \* mc_cache: nickname(lower) -> bool
    now,        \* the wall clock read by now_iso()
    reply,      \* what the last handler sent back with ctx.send
    nops,       \* number of commands handled so far
    aliases_up, \* whether a read of the aliases collection succeeds
    suspended   \* the handlers waiting at an await, as records

vars == <<db, verify_mc, mc_cache, now, reply, nops, aliases_up, suspended>>

\* ------------------------------------------------------------------ bounds
MaxOps == 4

\* commands per behaviour of MergeSpec
MaxMergeOps == 3

\* ----------------------------------------------------------------- strings
\* Python None: a sequence no string of single characters can equal
None == <<"None">>

\* Python truthiness of an optional string
Truthy(s) == s # None /\ s # <<>>

Free == <<"F", "r", "e", "e">>
FA == <<"F", "A">>
Red == <<"R", "e", "d">>
NA == <<"N", "/", "A">>

\* str.lower() on one character
Lower(c) ==
    CASE c = "A" -> "a"
      [] c = "B" -> "b"
      [] c = "C" -> "c"
      [] c = "R" -> "r"
      [] c = "F" -> "f"
      [] OTHER -> c

IsSpace(c) == c \in {" ", "\n"}

RECURSIVE LStrip(_)
LStrip(s) == IF s # <<>> /\ IsSpace(Head(s)) THEN LStrip(Tail(s)) ELSE s

RECURSIVE RStrip(_)
RStrip(s) ==
    IF s # <<>> /\ IsSpace(s[Len(s)]) THEN RStrip(SubSeq(s, 1, Len(s) - 1)) ELSE s

\* str.strip()
Strip(s) == LStrip(RStrip(s))

\* str.split(): the maximal runs of non-space characters
RECURSIVE SplitWords(_, _, _)
SplitWords(s, cur, acc) ==
    IF s = <<>>
    THEN IF cur = <<>> THEN acc ELSE Append(acc, cur)
    ELSE IF IsSpace(Head(s))
         THEN SplitWords(Tail(s), <<>>, IF cur = <<>> THEN acc ELSE Append(acc, cur))
         ELSE SplitWords(Tail(s), Append(cur, Head(s)), acc)

\* " ".join(words)
RECURSIVE JoinWords(_)
JoinWords(ws) ==
    IF ws = <<>> THEN <<>>
    ELSE IF Len(ws) = 1 THEN ws[1]
    ELSE ws[1] \o <<" ">> \o JoinWords(Tail(ws))

\* str.lower()
LowerStr(s) == [i \in 1..Len(s) |-> Lower(s[i])]

normalize_nick(nick) == LowerStr(Strip(nick))

normalize_team_name(team) ==
    IF ~Truthy(team) THEN Free
    ELSE JoinWords(SplitWords(Strip(team), <<>>, <<>>))

\* ------------------------------------------------------------ pitch utils
DEFAULT_PITCH_POWER == <<"2", "0">>

IsDigit(c) == c \in {"0", "1", "2", "3", "4", "5", "6", "7", "8", "9"}

Contains(s, c) == \E i \in 1..Len(s) : s[i] = c

\* index of the first occurrence of c in s, 0 when there is none
IndexOf(s, c) ==
    IF Contains(s, c) THEN CHOOSE i \in 1..Len(s) : s[i] = c /\ \A j \in 1..(i - 1) : s[j] # c
    ELSE 0

\* str.split(sep) for a one-character separator
RECURSIVE SplitOn(_, _)
SplitOn(s, sep) ==
    LET i == IndexOf(s, sep) IN
    IF i = 0 THEN <<s>>
    ELSE <<SubSeq(s, 1, i - 1)>> \o SplitOn(SubSeq(s, i + 1, Len(s)), sep)

\* str.rstrip(",")
RECURSIVE RStripComma(_)
RStripComma(s) ==
    IF s # <<>> /\ s[Len(s)] = "," THEN RStripComma(SubSeq(s, 1, Len(s) - 1)) ELSE s

\* re.sub(r'\s+', '', s)
RECURSIVE RemoveSpaces(_)
RemoveSpaces(s) ==
    IF s = <<>> THEN <<>>
    ELSE IF IsSpace(Head(s)) THEN RemoveSpaces(Tail(s))
    ELSE <<Head(s)>> \o RemoveSpaces(Tail(s))

\* re.match(r'^([^\(]+)', pitch): the text before the first "("
pitch_base_name(pitch) ==
    LET i == IndexOf(pitch, "(") IN
    IF i = 0 THEN Strip(pitch)
    ELSE IF i = 1 THEN Strip(pitch)
    ELSE Strip(SubSeq(pitch, 1, i - 1))

\* re.search(r'\(\s*\d+\s*\)$', pitch)
pitch_has_power(pitch) ==
    \E i \in 1..Len(pitch) :
        /\ pitch[i] = "("
        /\ pitch[Len(pitch)] = ")"
        /\ LET inner == Strip(SubSeq(pitch, i + 1, Len(pitch) - 1)) IN
              /\ inner # <<>>
              /\ \A j \in 1..Len(inner) : IsDigit(inner[j])

normalize_pitch_token(tok) ==
    IF tok = <<>> THEN <<>>
    ELSE LET t == RStripComma(Strip(tok)) IN
         IF pitch_has_power(t) THEN RemoveSpaces(t)
         ELSE pitch_base_name(t) \o <<"(">> \o DEFAULT_PITCH_POWER \o <<")">>

\* ---------------------------------------------------------------- parsing
\* re.findall(r'([^\s,]+(?:\(\s*\d+\s*\))?|[^\s,]+)', line): the maximal runs
\* of characters that are neither white space nor a comma
RECURSIVE PitchTokens(_, _, _)
PitchTokens(s, cur, acc) ==
    IF s = <<>>
    THEN IF cur = <<>> THEN acc ELSE Append(acc, cur)
    ELSE IF IsSpace(Head(s)) \/ Head(s) = ","
         THEN PitchTokens(Tail(s), <<>>, IF cur = <<>> THEN acc ELSE Append(acc, cur))
         ELSE PitchTokens(Tail(s), Append(cur, Head(s)), acc)

RECURSIVE NormalizeAll(_)
NormalizeAll(toks) ==
    IF toks = <<>> THEN <<>>
    ELSE LET tok == RStripComma(Strip(Head(toks)))
             norm == normalize_pitch_token(tok)
         IN (IF tok = <<>> \/ norm = <<>> THEN <<>> ELSE <<norm>>) \o NormalizeAll(Tail(toks))

parse_pitch_line(pitch_line) ==
    IF pitch_line = <<>> THEN <<>>
    ELSE NormalizeAll(PitchTokens(Strip(pitch_line), <<>>, <<>>))

\* [normalize_pitch_token(p.strip()) for p in field.split(",") if p.strip()]
RECURSIVE PipePitches(_)
PipePitches(ps) ==
    IF ps = <<>> THEN <<>>
    ELSE (IF Strip(Head(ps)) = <<>> THEN <<>> ELSE <<normalize_pitch_token(Strip(Head(ps)))>>)
         \o PipePitches(Tail(ps))

\* the lines of text (str.splitlines)
SplitLines(text) == IF text = <<>> THEN <<>> ELSE SplitOn(text, "\n")

\* groups the stripped non-blank lines; a blank line ends the current block
RECURSIVE GroupBlocks(_, _, _)
GroupBlocks(lines, cur, acc) ==
    IF lines = <<>>
    THEN IF cur = <<>> THEN acc ELSE Append(acc, cur)
    ELSE IF Strip(Head(lines)) = <<>>
         THEN GroupBlocks(Tail(lines), <<>>, IF cur = <<>> THEN acc ELSE Append(acc, cur))
         ELSE GroupBlocks(Tail(lines), Append(cur, Strip(Head(lines))), acc)

split_into_blocks(text) == GroupBlocks(SplitLines(Strip(text)), <<>>, <<>>)

\* the longest prefix of s with no character of stop
RECURSIVE TakeUntil(_, _)
TakeUntil(s, stop) ==
    IF s = <<>> \/ Head(s) \in stop THEN <<>>
    ELSE <<Head(s)>> \o TakeUntil(Tail(s), stop)

Drop(s, n) == SubSeq(s, n + 1, Len(s))

\* an optional group (?:\s*OPEN([^CLOSE]*)CLOSE)? matched at the start of s:
\* [found, text, rest]
OptGroup(s, open, close) ==
    LET t == LStrip(s) IN
    IF t # <<>> /\ Head(t) = open /\ Contains(Tail(t), close)
    THEN LET inner == TakeUntil(Tail(t), {close}) IN
         [found |-> TRUE, text |-> inner, rest |-> Drop(t, Len(inner) + 2)]
    ELSE [found |-> FALSE, text |-> <<>>, rest |-> s]

Draft(nickname, team, position, pitch_types, form) ==
    [nickname |-> nickname, team |-> team, position |-> position,
     pitch_types |-> pitch_types, form |-> form]

\* the branch for a single line of |-separated fields
ParsePipe(line) ==
    LET parts == SplitOn(line, "|")
        n == Len(parts)
        t == IF n >= 3 THEN Strip(parts[3]) ELSE <<>>
    IN Draft(Strip(parts[1]),
             IF n >= 3 /\ t # <<>> THEN normalize_team_name(t) ELSE None,
             IF n >= 4 /\ Strip(parts[4]) # <<>> THEN Strip(parts[4]) ELSE NA,
             IF n >= 5 /\ Strip(parts[5]) # <<>> THEN PipePitches(SplitOn(parts[5], ",")) ELSE <<>>,
             IF n >= 6 /\ Strip(parts[6]) # <<>> THEN Strip(parts[6]) ELSE <<>>)

\* the branch for a header line "nick (form) [team] rest" and pitch lines
ParseNarrative(block_lines) ==
    LET first == block_lines[1]
        s0 == LStrip(first)
        nick == TakeUntil(s0, {" ", "\n", "(", "["})
        matched == nick # <<>>
        g2 == OptGroup(Drop(s0, Len(nick)), "(", ")")
        g3 == OptGroup(g2.rest, "[", "]")
        nickname == IF matched THEN Strip(nick) ELSE Strip(first)
        form == IF matched THEN Strip(g2.text) ELSE <<>>
        team == IF matched /\ g3.found /\ g3.text # <<>>
                THEN normalize_team_name(Strip(g3.text)) ELSE None
        rest == IF matched THEN Strip(g3.rest) ELSE <<>>
        more == IF Len(block_lines) >= 2 THEN JoinWords(Tail(block_lines)) ELSE <<>>
        pitch_text == Strip(IF rest # <<>> /\ more # <<>> THEN rest \o <<" ">> \o more
                            ELSE rest \o more)
    IN Draft(nickname, team, NA, parse_pitch_line(pitch_text), form)

parse_block_to_player(block_lines) ==
    IF Len(block_lines) = 1 /\ Contains(block_lines[1], "|")
    THEN ParsePipe(block_lines[1])
    ELSE ParseNarrative(block_lines)

\* ------------------------------------------------- Firestore documents
\* A collection is a function from the ids of its existing documents.
Exists(coll, id) == id \in DOMAIN coll

DocSet(coll, id, doc) ==
    [k \in (DOMAIN coll) \cup {id} |-> IF k = id THEN doc ELSE coll[k]]

DocDelete(coll, id) == [k \in (DOMAIN coll) \ {id} |-> coll[k]]

\* firestore.ArrayUnion([x]) / firestore.ArrayRemove([x]) on an array field
ArrayUnion(arr, x) ==
    IF \E i \in 1..Len(arr) : arr[i] = x THEN arr ELSE Append(arr, x)

RECURSIVE ArrayRemove(_, _)
ArrayRemove(arr, x) ==
    IF arr = <<>> THEN <<>>
    ELSE IF Head(arr) = x THEN ArrayRemove(Tail(arr), x)
    ELSE <<Head(arr)>> \o ArrayRemove(Tail(arr), x)

Members(arr) == {arr[i] : i \in 1..Len(arr)}

EmptyColl == [k \in {} |-> None]

EmptyDb == [players |-> EmptyColl, teams |-> EmptyColl,
            records |-> EmptyColl, aliases |-> EmptyColl]

\* ------------------------------------------------------------- replies
NoOut == [created |-> <<>>, updated |-> <<>>, skipped |-> <<>>, errors |-> <<>>]

Reply(cmd, args, msg) == [cmd |-> cmd, args |-> args, msg |-> msg, out |-> NoOut]

\* the value a handler returns here: the store it leaves and what it sent
Done(d, cmd, args, msg) == [db |-> d, reply |-> Reply(cmd, args, msg)]

\* ---------------------------------------------------------------- Alias
resolve_nick(d, nick) ==
    LET norm == normalize_nick(nick) IN
    IF Exists(d.aliases, norm) /\ Truthy(d.aliases[norm].current)
    THEN normalize_nick(d.aliases[norm].current)
    ELSE norm

\* ------------------------------------------------------- Firestore refs
\* player_doc_ref(nick).id and records_doc_ref(nick).id
player_doc_ref(d, nick) == resolve_nick(d, nick)

team_doc_ref(teamname) == normalize_team_name(teamname)

records_doc_ref(d, nick) == resolve_nick(d, nick)

\* doc_ref.update(fields) on an existing player document
PlayerUpdate(d, id, fields) ==
    [d EXCEPT !.players =
        DocSet(d.players, id,
               [f \in DOMAIN d.players[id] |->
                   IF f \in DOMAIN fields THEN fields[f] ELSE d.players[id][f]])]

\* t_ref.set({"name": ..., "created_at": ...}, merge=True): creates the team
\* document when it is missing and keeps the roster of an existing one
TeamSetMerge(d, team) ==
    IF Exists(d.teams, team_doc_ref(team)) THEN d
    ELSE [d EXCEPT !.teams = DocSet(d.teams, team_doc_ref(team), [roster |-> <<>>])]

\* t_ref.update({"roster": ...}) raises NotFound on a missing document
TeamCanUpdate(d, team) == Exists(d.teams, team_doc_ref(team))

TeamRosterUnion(d, team, id) ==
    [d EXCEPT !.teams =
        DocSet(d.teams, team_doc_ref(team),
               [roster |-> ArrayUnion(d.teams[team_doc_ref(team)].roster, id)])]

TeamRosterRemove(d, team, id) ==
    [d EXCEPT !.teams =
        DocSet(d.teams, team_doc_ref(team),
               [roster |-> ArrayRemove(d.teams[team_doc_ref(team)].roster, id)])]

\* try: team_doc_ref(team).update(ArrayRemove) / except Exception: pass
TryRosterRemove(d, team, id) ==
    IF TeamCanUpdate(d, team) THEN TeamRosterRemove(d, team, id) ELSE d

\* ------------------------------------------------------- Mojang check
\* is_mc_username: [valid, cache]; mojang[key] is what the HTTP request for a
\* nickname would end in ("200", "404", "timeout", ...) if it is sent
is_mc_username(verify, cache, nick, mojang) ==
    LET key == normalize_nick(nick)
        status == mojang[key]
    IN
    IF ~verify THEN [valid |-> TRUE, cache |-> cache]
    ELSE IF key = <<>> THEN [valid |-> FALSE, cache |-> cache]
    ELSE IF Exists(cache, key) THEN [valid |-> cache[key], cache |-> cache]
    ELSE [valid |-> status = "200", cache |-> DocSet(cache, key, status = "200")]

\* --------------------------------------------------- player documents
PlayerDoc(nickname, team, position, pitch_types, form, created_at, created_by) ==
    [nickname |-> nickname, team |-> team, position |-> position,
     pitch_types |-> pitch_types, form |-> form,
     created_at |-> created_at, updated_at |-> created_at,
     created_by |-> created_by, status |-> None]

\* a missing created_at / created_by field, and the empty dict of a missing
\* document
NoStamp == -1
NoActor == "nobody"
NoPlayer == PlayerDoc(<<>>, None, <<>>, <<>>, <<>>, NoStamp, NoActor)

\* the append loop replaced by the draft's list
AppendPitches_replace(appended, new_pitches) == new_pitches

\* the append loop without the test on base names
AppendPitches_no_dedup(appended, new_pitches) == appended \o new_pitches

\* the append loop of 추가: a draft pitch is added when its base name is new
RECURSIVE AppendPitches(_, _)
AppendPitches(appended, new_pitches) ==
    IF new_pitches = <<>> THEN appended
    ELSE LET p == Head(new_pitches)
             existing_bases == {pitch_base_name(appended[i]) : i \in 1..Len(appended)}
         IN AppendPitches(IF pitch_base_name(p) \in existing_bases THEN appended
                          ELSE Append(appended, p),
                          Tail(new_pitches))

\* t_ref.set(..., merge=True); t_ref.update({"roster": ArrayUnion([id])})
JoinRoster(d, team, id) == TeamRosterUnion(TeamSetMerge(d, team), team, normalize_nick(id))

\* ---------------------------------------------------- batch accumulators
\* acc = [db, cache, created, updated, skipped, errors]
Acc0(d, cache) ==
    [db |-> d, cache |-> cache, created |-> <<>>, updated |-> <<>>,
     skipped |-> <<>>, errors |-> <<>>]

Summary(acc, cmd, args) ==
    [db |-> acc.db, cache |-> acc.cache,
     reply |-> [Reply(cmd, args, "summary") EXCEPT
                   !.out = [created |-> acc.created, updated |-> acc.updated,
                            skipped |-> acc.skipped, errors |-> acc.errors]]]

\* an error that is recorded in no list
Failed_dropped(acc, i) == acc

Failed(acc, i) == [acc EXCEPT !.errors = Append(@, i)]

\* --------------------------------------------- writes shared by the batches
\* doc_ref.set(data), then the roster of data's team
PutPlayer(d, id, data) == [d EXCEPT !.players = DocSet(d.players, id, data)]

PutAndJoin(d, id, data, team) ==
    IF Truthy(team) THEN JoinRoster(PutPlayer(d, id, data), team, id) ELSE PutPlayer(d, id, data)

\* the Mojang check made for every block, whether its player is stored or not
Verify_always(acc, raw_nick, exists, env) ==
    is_mc_username(env.verify, acc.cache, raw_nick, env.mojang)

\* the Mojang check made for a block whose nickname has no stored player
Verify(acc, raw_nick, exists, env) ==
    IF env.verify /\ ~exists
    THEN is_mc_username(env.verify, acc.cache, raw_nick, env.mojang)
    ELSE [valid |-> TRUE, cache |-> acc.cache]

\* ------------------------------------------------------------ 추가 (add)
\* the fields of a |-separated line as 추가 reads them
PipeFields(parts) ==
    Draft(Strip(parts[1]),
          IF Strip(parts[3]) # <<>> THEN normalize_team_name(Strip(parts[3])) ELSE None,
          Strip(parts[4]),
          IF Len(parts) >= 5 /\ Strip(parts[5]) # <<>>
          THEN PipePitches(SplitOn(parts[5], ",")) ELSE <<>>,
          IF Len(parts) >= 6 THEN Strip(parts[6]) ELSE <<>>)

\* updates of an existing player: the |-separated branch and the other one
PipeUpdates(existing, f, t) ==
    [pitch_types |-> AppendPitches(existing.pitch_types, f.pitch_types), updated_at |-> t]
    @@ (IF f.team # None THEN [team |-> IF Truthy(f.team) THEN f.team ELSE Free] ELSE <<>>)
    @@ (IF f.form # <<>> THEN [form |-> f.form] ELSE <<>>)

NarrativeUpdates(existing, parsed, t) ==
    PipeUpdates(existing, parsed, t)
    @@ (IF parsed.position # <<>> THEN [position |-> parsed.position] ELSE <<>>)

TeamNow(team, existing) ==
    IF Truthy(team) THEN team ELSE IF Truthy(existing.team) THEN existing.team ELSE Free

\* the branch "if exists": update the document, then join team_now's roster
AddExisting(acc, target_norm, updates, team_now) ==
    [acc EXCEPT !.db = JoinRoster(PlayerUpdate(acc.db, target_norm, updates),
                                  team_now, target_norm),
                !.updated = Append(@, target_norm)]

\* the branch "else": the Mojang check, then the new document and its roster
AddNew(acc, i, target_norm, data, mc) ==
    IF ~mc.valid THEN Failed([acc EXCEPT !.cache = mc.cache], i)
    ELSE [acc EXCEPT !.db = PutAndJoin(acc.db, target_norm, data, data.team),
                     !.cache = mc.cache,
                     !.created = Append(@, target_norm)]

\* the document written for a new player
AddData(f, env) ==
    PlayerDoc(f.nickname, IF Truthy(f.team) THEN f.team ELSE Free, f.position,
              f.pitch_types, f.form, env.t, env.actor)

AddAt(acc, i, f, target_norm, is_pipe, env) ==
    IF target_norm = <<>> THEN Failed(acc, i)
    ELSE IF Exists(acc.db.players, target_norm)
    THEN AddExisting(acc, target_norm,
                     IF is_pipe THEN PipeUpdates(acc.db.players[target_norm], f, env.t)
                     ELSE NarrativeUpdates(acc.db.players[target_norm], f, env.t),
                     TeamNow(f.team, acc.db.players[target_norm]))
    ELSE AddNew(acc, i, target_norm, AddData(f, env), Verify(acc, f.nickname, FALSE, env))

AddFields(acc, i, f, is_pipe, env) ==
    AddAt(acc, i, f, resolve_nick(acc.db, f.nickname), is_pipe, env)

AddPipeBlock(acc, i, parts, env) ==
    IF Len(parts) < 4 THEN Failed(acc, i)
    ELSE AddFields(acc, i, PipeFields(parts), TRUE, env)

\* one block of the payload; env = [verify, mojang, actor, t]
AddBlock(acc, i, block_lines, env) ==
    IF Len(block_lines) = 1 /\ Contains(block_lines[1], "|")
    THEN AddPipeBlock(acc, i, SplitOn(block_lines[1], "|"), env)
    ELSE AddFields(acc, i, parse_block_to_player(block_lines), FALSE, env)

RECURSIVE AddLoop(_, _, _, _)
AddLoop(acc, i, blocks, env) ==
    IF i > Len(blocks) THEN acc
    ELSE AddLoop(AddBlock(acc, i, blocks[i], env), i + 1, blocks, env)

add_one_cmd(d, cache, payload, env) ==
    IF Strip(payload) = <<>>
    THEN [db |-> d, cache |-> cache, reply |-> Reply("add", <<payload>>, "format_error")]
    ELSE Summary(AddLoop(Acc0(d, cache), 1, split_into_blocks(payload), env),
                 "add", <<payload>>)

\* ---------------------------------------------------------- 등록 (register)
\* the document 등록 writes for draft p over the stored document old (NoPlayer
\* when there is none)
RegisterData(p, target_norm, exists, old, env) ==
    [PlayerDoc(IF target_norm = normalize_nick(p.nickname) THEN p.nickname ELSE target_norm,
               IF exists THEN (IF p.team # None THEN p.team ELSE old.team)
               ELSE (IF Truthy(p.team) THEN p.team ELSE Free),
               p.position, p.pitch_types, p.form,
               IF exists THEN old.created_at ELSE env.t,
               IF exists THEN old.created_by ELSE env.actor)
     EXCEPT !.updated_at = env.t]

RegisterWrite(acc, i, target_norm, data, mc) ==
    IF ~mc.valid THEN Failed([acc EXCEPT !.cache = mc.cache], i)
    ELSE [acc EXCEPT !.db = PutAndJoin(acc.db, target_norm, data, data.team),
                     !.cache = mc.cache,
                     !.created = Append(@, target_norm)]

RegisterAt(acc, i, p, target_norm, exists, env) ==
    IF target_norm = <<>> THEN Failed(acc, i)
    ELSE RegisterWrite(acc, i, target_norm,
                       RegisterData(p, target_norm, exists,
                                    IF exists THEN acc.db.players[target_norm] ELSE NoPlayer,
                                    env),
                       Verify(acc, p.nickname, exists, env))

RegisterParsed(acc, i, p, target_norm, env) ==
    RegisterAt(acc, i, p, target_norm, Exists(acc.db.players, target_norm), env)

RegisterBlock(acc, i, p, env) ==
    RegisterParsed(acc, i, p, resolve_nick(acc.db, p.nickname), env)

RECURSIVE RegisterLoop(_, _, _, _)
RegisterLoop(acc, i, blocks, env) ==
    IF i > Len(blocks) THEN acc
    ELSE RegisterLoop(RegisterBlock(acc, i, parse_block_to_player(blocks[i]), env),
                      i + 1, blocks, env)

bulk_register_cmd(d, cache, bulk_text, env) ==
    IF bulk_text = <<>>
    THEN [db |-> d, cache |-> cache, reply |-> Reply("register", <<bulk_text>>, "format_error")]
    ELSE Summary(RegisterLoop(Acc0(d, cache), 1, split_into_blocks(bulk_text), env),
                 "register", <<bulk_text>>)

\* ------------------------------------------------- 가져오기파일 (import file)
\* the modes, by their English names (mode_aliases also maps Korean ones)
MODE_SKIP == <<"s", "k", "i", "p">>
MODE_OVERWRITE == <<"o", "v", "e", "r", "w", "r", "i", "t", "e">>

\* the parse of the command arguments: [team_override, mode]
ImportTokens(args, tokens, last) ==
    [team_override |->
         IF tokens = <<>> THEN None
         ELSE IF last \in {MODE_SKIP, MODE_OVERWRITE}
              THEN (IF Len(tokens) > 1
                    THEN normalize_team_name(Strip(JoinWords(SubSeq(tokens, 1, Len(tokens) - 1))))
                    ELSE None)
              ELSE normalize_team_name(Strip(args)),
     mode |-> IF last \in {MODE_SKIP, MODE_OVERWRITE} THEN last ELSE MODE_SKIP]

ImportSplit(args, tokens) ==
    ImportTokens(args, tokens, IF tokens = <<>> THEN <<>> ELSE LowerStr(tokens[Len(tokens)]))

ImportArgs(args) == ImportSplit(args, SplitWords(Strip(args), <<>>, <<>>))

\* the team 가져오기파일 gives the player
ImportTeam(p, exists, old, team_override) ==
    IF Truthy(team_override) THEN team_override
    ELSE IF exists THEN (IF p.team # None THEN p.team ELSE old.team)
    ELSE (IF Truthy(p.team) THEN p.team ELSE Free)

ImportData(p, target_norm, exists, old, team_val, env) ==
    [PlayerDoc(IF target_norm = normalize_nick(p.nickname) THEN p.nickname ELSE target_norm,
               IF Truthy(team_val) THEN team_val ELSE Free,
               p.position, p.pitch_types, p.form,
               IF exists /\ old.created_at # NoStamp THEN old.created_at ELSE env.t,
               IF exists /\ old.created_by # NoActor THEN old.created_by ELSE env.actor)
     EXCEPT !.updated_at = env.t]

ImportWrite(acc, i, target_norm, exists, data, team_val, mc) ==
    IF ~mc.valid THEN Failed([acc EXCEPT !.cache = mc.cache], i)
    ELSE IF exists
    THEN [acc EXCEPT !.db = PutAndJoin(acc.db, target_norm, data, team_val),
                     !.cache = mc.cache,
                     !.updated = Append(@, target_norm)]
    ELSE [acc EXCEPT !.db = PutAndJoin(acc.db, target_norm, data, team_val),
                     !.cache = mc.cache,
                     !.created = Append(@, target_norm)]

ImportTeamed(acc, i, p, target_norm, exists, old, team_val, env) ==
    ImportWrite(acc, i, target_norm, exists,
                ImportData(p, target_norm, exists, old, team_val, env),
                team_val, Verify(acc, p.nickname, exists, env))

ImportAt(acc, i, p, target_norm, exists, a, env) ==
    IF target_norm = <<>> THEN Failed(acc, i)
    ELSE IF exists /\ a.mode = MODE_SKIP THEN [acc EXCEPT !.skipped = Append(@, target_norm)]
    ELSE ImportTeamed(acc, i, p, target_norm, exists,
                      IF exists THEN acc.db.players[target_norm] ELSE NoPlayer,
                      ImportTeam(p, exists,
                                 IF exists THEN acc.db.players[target_norm] ELSE NoPlayer,
                                 a.team_override),
                      env)

ImportParsed(acc, i, p, target_norm, a, env) ==
    ImportAt(acc, i, p, target_norm, Exists(acc.db.players, target_norm), a, env)

ImportBlock(acc, i, p, a, env) ==
    ImportParsed(acc, i, p, resolve_nick(acc.db, p.nickname), a, env)

RECURSIVE ImportLoop(_, _, _, _, _)
ImportLoop(acc, i, blocks, a, env) ==
    IF i > Len(blocks) THEN acc
    ELSE ImportLoop(ImportBlock(acc, i, parse_block_to_player(blocks[i]), a, env),
                    i + 1, blocks, a, env)

\* text is the decoded content of the first attachment
import_file_cmd(d, cache, args, text, env) ==
    Summary(ImportLoop(Acc0(d, cache), 1, split_into_blocks(text), ImportArgs(args), env),
            "import", <<args, text>>)

\* ------------------------------------------------------ 닉변 (rename)
\* new_ref.set(data); old_ref.delete()
RenamePlayer(d, old_id, new_id, data) ==
    [d EXCEPT !.players = DocDelete(DocSet(d.players, new_id, data), old_id)]

\* rec_new.set(rec_old_doc.to_dict()); rec_old.delete(), when rec_old exists
RenameRecords(d, rec_old, rec_new) ==
    IF Exists(d.records, rec_old)
    THEN [d EXCEPT !.records =
             DocDelete(DocSet(d.records, rec_new, d.records[rec_old]), rec_old)]
    ELSE d

\* alias_ref.set({"current": normalize_nick(newnick), ...}, merge=True)
RenameAlias(d, old_id, new_id) ==
    [d EXCEPT !.aliases = DocSet(d.aliases, old_id, [current |-> new_id])]

\* the records and the alias, once the roster is written
RenameFinish(d, oldnick, newnick) ==
    Done(RenameAlias(RenameRecords(d, records_doc_ref(d, oldnick),
                                   records_doc_ref(d, newnick)),
                     normalize_nick(oldnick), normalize_nick(newnick)),
         "nickchange", <<oldnick, newnick>>, "ok")

\* the roster update without the removal of the old id
RenameRoster_keep_old(d, team, oldnick, newnick) ==
    IF ~Truthy(team) THEN RenameFinish(d, oldnick, newnick)
    ELSE IF ~TeamCanUpdate(d, team)
    THEN Done(d, "nickchange", <<oldnick, newnick>>, "failed")
    ELSE RenameFinish(TeamRosterUnion(d, team, normalize_nick(newnick)), oldnick, newnick)

\* the roster of the player's team: the removal of the old id is tried, the
\* union of the new id raises on a missing team document
RenameRoster(d, team, oldnick, newnick) ==
    IF ~Truthy(team) THEN RenameFinish(d, oldnick, newnick)
    ELSE IF ~TeamCanUpdate(d, team)
    THEN Done(d, "nickchange", <<oldnick, newnick>>, "failed")
    ELSE RenameFinish(TeamRosterUnion(TryRosterRemove(d, team, normalize_nick(oldnick)),
                                      team, normalize_nick(newnick)),
                      oldnick, newnick)

\* the try block of 닉변, entered when old exists and new does not
RenameMove(d, oldnick, newnick, t) ==
    RenameRoster(RenamePlayer(d, normalize_nick(oldnick), normalize_nick(newnick),
                              [d.players[normalize_nick(oldnick)] EXCEPT
                                  !.nickname = newnick, !.updated_at = t]),
                 d.players[normalize_nick(oldnick)].team, oldnick, newnick)

\* 닉변 without the check that the new nickname is free
nickchange_cmd_overwrite(d, oldnick, newnick, t) ==
    IF ~Exists(d.players, normalize_nick(oldnick))
    THEN Done(d, "nickchange", <<oldnick, newnick>>, "not_found")
    ELSE RenameMove(d, oldnick, newnick, t)

nickchange_cmd(d, oldnick, newnick, t) ==
    IF ~Exists(d.players, normalize_nick(oldnick))
    THEN Done(d, "nickchange", <<oldnick, newnick>>, "not_found")
    ELSE IF Exists(d.players, normalize_nick(newnick))
    THEN Done(d, "nickchange", <<oldnick, newnick>>, "already_exists")
    ELSE RenameMove(d, oldnick, newnick, t)

\* ------------------------------------------------------------ 수정 (edit)
\* the updates of the block form, where a block without pitches keeps the
\* stored pitch list
EditUpdates_keep_pitches(old, parsed, t) ==
    [team |-> IF parsed.team = None THEN old.team
              ELSE IF Truthy(parsed.team) THEN parsed.team ELSE Free,
     form |-> IF parsed.form # <<>> THEN parsed.form ELSE old.form,
     position |-> parsed.position,
     pitch_types |-> IF parsed.pitch_types = <<>> THEN old.pitch_types
                     ELSE parsed.pitch_types,
     updated_at |-> t]

\* the updates of the block form
EditUpdates(old, parsed, t) ==
    [team |-> IF parsed.team = None THEN old.team
              ELSE IF Truthy(parsed.team) THEN parsed.team ELSE Free,
     form |-> IF parsed.form # <<>> THEN parsed.form ELSE old.form,
     position |-> parsed.position,
     pitch_types |-> parsed.pitch_types,
     updated_at |-> t]

\* the block form: the non-blank lines of the payload are one block
EditBlock(d, payload, t) ==
    LET all == SplitLines(payload)
        keep == {i \in 1..Len(all) : Strip(all[i]) # <<>>}
        Pick[i \in 0..Len(all)] ==
            IF i = 0 THEN <<>>
            ELSE IF i \in keep THEN Append(Pick[i - 1], all[i]) ELSE Pick[i - 1]
        lines == Pick[Len(all)]
    IN
    IF lines = <<>> THEN Done(d, "edit", <<payload>>, "format_error")
    ELSE
    LET parsed == parse_block_to_player(lines)
        raw_nick == parsed.nickname
        id == resolve_nick(d, raw_nick)
    IN
    IF id = <<>> THEN Done(d, "edit", <<payload>>, "error")
    ELSE IF ~Exists(d.players, id) THEN Done(d, "edit", <<payload>>, "not_found")
    ELSE
    LET old == d.players[id]
        updates == EditUpdates(old, parsed, t)
        d1 == PlayerUpdate(d, id, updates)
        old_team == old.team
        new_team == updates.team
        d2 == IF Truthy(old_team) /\ old_team # new_team
              THEN JoinRoster(TryRosterRemove(d1, old_team, normalize_nick(id)), new_team, id)
              ELSE d1
    IN Done(d2, "edit", <<payload>>, "ok")

\* the document field a field name typed by the user denotes, if modelled
FieldOf(field) ==
    CASE field = <<"t", "e", "a", "m">> -> "team"
      [] field = <<"f", "o", "r", "m">> -> "form"
      [] field = <<"p", "o", "s", "i", "t", "i", "o", "n">> -> "position"
      [] field = <<"n", "i", "c", "k", "n", "a", "m", "e">> -> "nickname"
      [] field = <<"p", "i", "t", "c", "h", "_", "t", "y", "p", "e", "s">> -> "pitch_types"
      [] field = <<"c", "r", "e", "a", "t", "e", "d", "_", "a", "t">> -> "created_at"
      [] field = <<"c", "r", "e", "a", "t", "e", "d", "_", "b", "y">> -> "created_by"
      [] OTHER -> "other"

\* the text a user typed, stored in a field that holds a timestamp of the
\* clock or the invoking actor: it is neither
TypedStamp == -2
TypedActor == "typed"

\* the single-field form: "nick field value"
EditField(d, payload, t) ==
    LET s == Strip(payload)
        nick == TakeUntil(s, {" ", "\n"})
        r1 == LStrip(Drop(s, Len(nick)))
        field == TakeUntil(r1, {" ", "\n"})
        value == LStrip(Drop(r1, Len(field)))
        id == player_doc_ref(d, nick)
        f == FieldOf(field)
    IN
    IF nick = <<>> \/ field = <<>> \/ value = <<>> THEN Done(d, "edit", <<payload>>, "format_error")
    ELSE IF ~Exists(d.players, id) THEN Done(d, "edit", <<payload>>, "not_found")
    ELSE
    LET updates == IF f = "pitch_types"
                   THEN [pitch_types |-> PipePitches(SplitOn(value, ",")), updated_at |-> t]
                   ELSE IF f = "other" THEN [updated_at |-> t]
                   ELSE IF f = "created_at" THEN [created_at |-> TypedStamp, updated_at |-> t]
                   ELSE IF f = "created_by" THEN [created_by |-> TypedActor, updated_at |-> t]
                   ELSE (f :> value) @@ [updated_at |-> t]
    IN Done(PlayerUpdate(d, id, updates), "edit", <<payload>>, "ok")

edit_cmd(d, payload, t) ==
    IF Strip(payload) = <<>> THEN Done(d, "edit", <<payload>>, "format_error")
    ELSE IF Contains(payload, "\n") \/ Contains(payload, "(") \/ Contains(payload, "[")
    THEN EditBlock(d, payload, t)
    ELSE EditField(d, payload, t)

\* ------------------------------------------------ 이적 / 영입 (transfer, recruit)
\* the move with a removal from the previous roster that is not tried: a
\* missing Team Record of the previous team ends the handler
MoveToTeam_abort(d, cmd, nick, newteam, fields) ==
    LET id == player_doc_ref(d, nick)
        args == <<nick, newteam>>
    IN
    IF ~Exists(d.players, id) THEN Done(d, cmd, args, "not_found")
    ELSE
    LET oldteam == d.players[id].team
        newteam_norm == normalize_team_name(newteam)
        d1 == PlayerUpdate(d, id, fields @@ [team |-> newteam_norm])
    IN
    IF Truthy(oldteam) /\ ~TeamCanUpdate(d1, oldteam) THEN Done(d1, cmd, args, "failed")
    ELSE Done(TeamRosterUnion(TeamSetMerge(
                  IF Truthy(oldteam) THEN TeamRosterRemove(d1, oldteam, normalize_nick(id))
                  ELSE d1, newteam_norm), newteam_norm, normalize_nick(id)),
              cmd, args, "ok")

MoveToTeam(d, cmd, nick, newteam, fields) ==
    LET id == player_doc_ref(d, nick)
        args == <<nick, newteam>>
    IN
    IF ~Exists(d.players, id) THEN Done(d, cmd, args, "not_found")
    ELSE
    LET oldteam == d.players[id].team
        newteam_norm == normalize_team_name(newteam)
        d1 == PlayerUpdate(d, id, fields @@ [team |-> newteam_norm])
        d2 == IF Truthy(oldteam) THEN TryRosterRemove(d1, oldteam, normalize_nick(id)) ELSE d1
        d3 == TeamRosterUnion(TeamSetMerge(d2, newteam_norm), newteam_norm, normalize_nick(id))
    IN Done(d3, cmd, args, "ok")

transfer_cmd(d, nick, newteam, t) ==
    MoveToTeam(d, "transfer", nick, newteam, [updated_at |-> t])

recruit_cmd(d, nick, teamname, t) ==
    MoveToTeam(d, "recruit", nick, teamname, [status |-> None, updated_at |-> t])

\* ------------------------------------------------------------ 팀 (team)
team_cmd(d, teamname) ==
    LET team_norm == normalize_team_name(teamname) IN
    IF ~Exists(d.teams, team_doc_ref(team_norm))
    THEN Done([d EXCEPT !.teams = DocSet(d.teams, team_doc_ref(team_norm), [roster |-> <<>>])],
              "team", <<teamname>>, "created")
    ELSE Done(d, "team", <<teamname>>, "roster")

\* ------------------------------------------------------ 팀삭제 (delete team)
\* the loop over the roster, ended by the first member without a player record
RECURSIVE DeleteTeamLoop_abort(_, _, _)
DeleteTeamLoop_abort(acc, roster, t) ==
    IF roster = <<>> THEN acc
    ELSE IF ~Exists(acc.db.players, Head(roster))
    THEN [acc EXCEPT !.errors = Append(@, Head(roster))]
    ELSE DeleteTeamLoop_abort(
             [acc EXCEPT !.db = TeamRosterUnion(PlayerUpdate(acc.db, Head(roster),
                                                             [team |-> FA, updated_at |-> t]),
                                                FA, normalize_nick(Head(roster))),
                         !.moved = Append(@, Head(roster))],
             Tail(roster), t)

\* the loop over the roster read at the start; acc = [db, moved, errors]
RECURSIVE DeleteTeamLoop(_, _, _)
DeleteTeamLoop(acc, roster, t) ==
    IF roster = <<>> THEN acc
    ELSE
    LET nick_norm == Head(roster)
        d == acc.db
    IN
    IF ~Exists(d.players, nick_norm)
    THEN DeleteTeamLoop([acc EXCEPT !.errors = Append(@, nick_norm)], Tail(roster), t)
    ELSE
    LET d1 == PlayerUpdate(d, nick_norm, [team |-> FA, updated_at |-> t])
        d2 == TeamRosterUnion(d1, FA, normalize_nick(nick_norm))
    IN DeleteTeamLoop([acc EXCEPT !.db = d2, !.moved = Append(@, nick_norm)], Tail(roster), t)

delete_team_cmd(d, teamname, t) ==
    LET team_norm == normalize_team_name(teamname)
        t_id == team_doc_ref(team_norm)
    IN
    IF ~Exists(d.teams, t_id) THEN Done(d, "delete_team", <<teamname>>, "not_found")
    ELSE
    LET roster == d.teams[t_id].roster
        d1 == TeamSetMerge(d, FA)
        fin == DeleteTeamLoop([db |-> d1, moved |-> <<>>, errors |-> <<>>], roster, t)
        d2 == [fin.db EXCEPT !.teams = DocDelete(fin.db.teams, t_id)]
    IN [db |-> d2,
        reply |-> [Reply("delete_team", <<teamname>>, "ok") EXCEPT
                      !.out = [NoOut EXCEPT !.updated = fin.moved, !.errors = fin.errors]]]

\* ------------------------------------------------------- 트레이드 (trade)
\* the four roster updates after both team fields are written; the first
\* update on a missing team document raises and ends the handler
trade_cmd(d, nick1, nick2, t) ==
    LET r1 == player_doc_ref(d, nick1)
        r2 == player_doc_ref(d, nick2)
        args == <<nick1, nick2>>
    IN
    IF ~Exists(d.players, r1) \/ ~Exists(d.players, r2)
    THEN Done(d, "trade", args, "not_found")
    ELSE
    LET t1 == d.players[r1].team
        t2 == d.players[r2].team
        d1 == PlayerUpdate(d, r1, [team |-> t2, updated_at |-> t])
        d2 == PlayerUpdate(d1, r2, [team |-> t1, updated_at |-> t])
        \* each step: <<team, operation, id>>
        steps == (IF Truthy(t1) THEN <<<<t1, "remove", r1>>>> ELSE <<>>)
              \o (IF Truthy(t1) /\ Truthy(t2) THEN <<<<t2, "union", r1>>>> ELSE <<>>)
              \o (IF Truthy(t2) THEN <<<<t2, "remove", r2>>>> ELSE <<>>)
              \o (IF Truthy(t2) /\ Truthy(t1) THEN <<<<t1, "union", r2>>>> ELSE <<>>)
        Run[i \in 0..Len(steps)] ==
            IF i = 0 THEN [db |-> d2, ok |-> TRUE]
            ELSE LET prev == Run[i - 1]
                     st == steps[i]
                 IN IF ~prev.ok THEN prev
                    ELSE IF ~TeamCanUpdate(prev.db, st[1]) THEN [prev EXCEPT !.ok = FALSE]
                    ELSE IF st[2] = "remove"
                         THEN [prev EXCEPT !.db = TeamRosterRemove(prev.db, st[1], normalize_nick(st[3]))]
                         ELSE [prev EXCEPT !.db = TeamRosterUnion(prev.db, st[1], normalize_nick(st[3]))]
        fin == Run[Len(steps)]
    IN Done(fin.db, "trade", args, IF fin.ok THEN "ok" ELSE "failed")

\* --------------------------------------------------------- 웨이버 (waiver)
waiver_cmd(d, nick, t) ==
    LET id == player_doc_ref(d, nick) IN
    IF ~Exists(d.players, id) THEN Done(d, "waiver", <<nick>>, "not_found")
    ELSE Done(PlayerUpdate(d, id, [status |-> <<"waiver">>, updated_at |-> t]),
              "waiver", <<nick>>, "ok")

\* ---------------------------------------------------------- 방출 (release)
release_cmd(d, nick, t) ==
    LET id == player_doc_ref(d, nick) IN
    IF ~Exists(d.players, id) THEN Done(d, "release", <<nick>>, "not_found")
    ELSE
    LET team == d.players[id].team
        d1 == PlayerUpdate(d, id, [team |-> Free, status |-> <<"released">>, updated_at |-> t])
        d2 == IF Truthy(team) THEN TryRosterRemove(d1, team, normalize_nick(id)) ELSE d1
    IN Done(d2, "release", <<nick>>, "ok")

\* ----------------------------------------------------------- 삭제 (delete)
\* 삭제 without the deletion of the game record
delete_cmd_keep_records(d, nick) ==
    IF ~Exists(d.players, player_doc_ref(d, nick)) THEN Done(d, "delete", <<nick>>, "not_found")
    ELSE Done(TryRosterRemove([d EXCEPT !.players = DocDelete(d.players, player_doc_ref(d, nick))],
                              d.players[player_doc_ref(d, nick)].team,
                              normalize_nick(player_doc_ref(d, nick))),
              "delete", <<nick>>, "ok")

delete_cmd(d, nick) ==
    LET id == player_doc_ref(d, nick) IN
    IF ~Exists(d.players, id) THEN Done(d, "delete", <<nick>>, "not_found")
    ELSE
    LET team == d.players[id].team
        d1 == [d EXCEPT !.players = DocDelete(d.players, id)]
        d2 == IF Truthy(team) THEN TryRosterRemove(d1, team, normalize_nick(id)) ELSE d1
        d3 == [d2 EXCEPT !.records = DocDelete(d2.records, records_doc_ref(d2, nick))]
    IN Done(d3, "delete", <<nick>>, "ok")

\* ------------------------------------------- 기록추가타자 (add batting record)
add_batting_cmd(d, nick, date, t) ==
    LET id == player_doc_ref(d, nick)
        rec == records_doc_ref(d, nick)
        entry == [date |-> date, added_at |-> t]
        old == IF Exists(d.records, rec) THEN d.records[rec] ELSE [batting |-> <<>>]
    IN
    IF ~Exists(d.players, id) THEN Done(d, "add_batting", <<nick, date>>, "not_found")
    ELSE Done([d EXCEPT !.records =
                  DocSet(d.records, rec, [batting |-> ArrayUnion(old.batting, entry)])],
              "add_batting", <<nick, date>>, "ok")

\* ------------------------------------------------------------- inputs
\* nicknames as typed by users; "B" is stored under the id "b"
RawNicks == {<<"a">>, <<"B">>, <<"c">>}

Actors == {"u1"}

Dates == {<<"d">>}

RawTeams == {Red, Free}

\* ordered pairs of different nicknames, for 닉변 and 트레이드
NickPairs == {pr \in RawNicks \X RawNicks : pr[1] # pr[2]}

\* payloads of 추가 / 등록 / 가져오기파일: header-only blocks, blocks naming a
\* team, a block with arm angle and pitches, and one |-separated line
Header(nick) == nick
HeaderTeam(nick, team) == nick \o <<" ", "[">> \o team \o <<"]">>
RichBlock == <<"a", " ", "(", "S", ")", "\n", "F">>
PipeLine == <<"c", "|", "c", "|", "R", "e", "d", "|", "P", "|", "F", "(", "3", "0", ")">>

TwoBlocks == <<"a", " ", "[", "R", "e", "d", "]", "\n", "\n", "B">>

AddPayloads ==
    {Header(n) : n \in RawNicks} \cup {HeaderTeam(<<"a">>, Red), HeaderTeam(<<"B">>, Red)}
    \cup {RichBlock, PipeLine, TwoBlocks}

RegisterPayloads == {Header(<<"B">>), HeaderTeam(<<"a">>, Red), RichBlock}

ImportArgLines == {<<>>, MODE_OVERWRITE, Red \o <<" ">> \o MODE_OVERWRITE}

ImportTexts == {Header(<<"c">>), HeaderTeam(<<"a">>, Red)}

\* payloads of 수정: block forms (with a team, with a blank team, with neither)
\* and the single-field form
EditPayloads ==
    {HeaderTeam(<<"a">>, Red), <<"a", " ", "(", "U", ")", "\n", "K">>, <<"a", " ", "[", "]">>, <<"a", " ", "t", "e", "a", "m", " ", "R", "e", "d">>, <<"B", " ", "p", "i", "t", "c", "h", "_", "t", "y", "p", "e", "s", " ", "K">>}

\* every request to the Mojang API would answer 200
AllValid == [k \in {normalize_nick(n) : n \in RawNicks} |-> "200"]

Env(actor) == [verify |-> verify_mc, mojang |-> AllValid, actor |-> actor, t |-> now]

\* --------------------------------------------------------------- actions
Init ==
    /\ db = EmptyDb
    /\ verify_mc = FALSE
    /\ mc_cache = EmptyColl
    /\ now = 0
    /\ reply = Reply("start", <<>>, "ready")
    /\ nops = 0
    /\ aliases_up = TRUE
    /\ suspended = {}

\* a handler ran: the store and the reply are what it returned
Handled(r) ==
    /\ nops < MaxOps
    /\ nops' = nops + 1
    /\ db' = r.db
    /\ reply' = r.reply
    /\ UNCHANGED <<verify_mc, now, aliases_up, suspended>>

Batch(r) == Handled(r) /\ mc_cache' = r.cache

Single(r) == Handled(r) /\ UNCHANGED mc_cache

Add == \E payload \in AddPayloads, actor \in Actors :
          Batch(add_one_cmd(db, mc_cache, payload, Env(actor)))

Register == \E payload \in RegisterPayloads, actor \in Actors :
               Batch(bulk_register_cmd(db, mc_cache, payload, Env(actor)))

Import == \E args \in ImportArgLines, text \in ImportTexts, actor \in Actors :
             Batch(import_file_cmd(db, mc_cache, args, text, Env(actor)))

Edit == \E payload \in EditPayloads : Single(edit_cmd(db, payload, now))

Rename == \E pr \in NickPairs : Single(nickchange_cmd(db, pr[1], pr[2], now))

Transfer == \E nick \in RawNicks, newteam \in RawTeams :
               Single(transfer_cmd(db, nick, newteam, now))

Recruit == \E nick \in RawNicks, teamname \in {Red} :
              Single(recruit_cmd(db, nick, teamname, now))

Team == \E teamname \in RawTeams : Single(team_cmd(db, teamname))

DeleteTeam == \E teamname \in RawTeams : Single(delete_team_cmd(db, teamname, now))

Trade == \E pr \in NickPairs : Single(trade_cmd(db, pr[1], pr[2], now))

Waiver == \E nick \in RawNicks : Single(waiver_cmd(db, nick, now))

Release == \E nick \in RawNicks : Single(release_cmd(db, nick, now))

Delete == \E nick \in RawNicks : Single(delete_cmd(db, nick))

AddBatting == \E nick \in RawNicks, date \in Dates :
                 Single(add_batting_cmd(db, nick, date, now))

Next ==
    \/ Add
    \/ Register
    \/ Import
    \/ Edit
    \/ Rename
    \/ Transfer
    \/ Recruit
    \/ Team
    \/ DeleteTeam
    \/ Trade
    \/ Waiver
    \/ Release
    \/ Delete
    \/ AddBatting

Spec == Init /\ [][Next]_vars

\* ------------------------------------------- merges of one player's drafts
\* blocks about the player "a":
\* a pitch with a power
PitchPower == <<"a", "\n", "F", "(", "3", "0", ")">>

\* the same pitch in lower case, another power
PitchLower == <<"a", "\n", "f", "(", "5", "5", ")">>

\* an arm angle and two pitches with no power
PitchPair == <<"a", " ", "(", "S", ")", "\n", "F", " ", "K">>

\* a team and no pitches
TeamOnly == <<"a", " ", "[", "R", "e", "d", "]">>

\* one pitch named twice
PitchTwice == <<"a", "\n", "F", " ", "F", "(", "3", "0", ")">>

\* a |-separated line with an empty team field
PipeBlankTeam == <<"a", "|", "a", "|", "|", "P", "|", "F", "(", "4", "0", ")">>

\* an arm angle only
FormOnly == <<"a", " ", "(", "S", ")">>

\* empty brackets
BlankTeam == <<"a", " ", "[", "]">>

\* the single-field form of 수정 on pitch_types
FieldPitches == <<"a", " ", "p", "i", "t", "c", "h", "_", "t", "y", "p", "e", "s", " ", "F", ",", "F", "(", "3", "0", ")">>

MergeAddPayloads ==
    {PitchPower, PitchLower, PitchPair, TeamOnly, PitchTwice, PipeBlankTeam, BlankTeam}

MergeRegisterPayloads == {PitchPower, PitchPair, PitchTwice}

MergeImportTexts == {PitchLower, TeamOnly}

MergeEditPayloads == {PitchPower, FormOnly, BlankTeam, TeamOnly, FieldPitches}

MergeHandled(r) ==
    /\ nops < MaxMergeOps
    /\ nops' = nops + 1
    /\ db' = r.db
    /\ reply' = r.reply
    /\ UNCHANGED <<verify_mc, now, aliases_up, suspended>>

MergeBatch(r) == MergeHandled(r) /\ mc_cache' = r.cache

MergeSingle(r) == MergeHandled(r) /\ UNCHANGED mc_cache

MergeAdd == \E payload \in MergeAddPayloads, actor \in Actors :
               MergeBatch(add_one_cmd(db, mc_cache, payload, Env(actor)))

MergeRegister == \E payload \in MergeRegisterPayloads, actor \in Actors :
                    MergeBatch(bulk_register_cmd(db, mc_cache, payload, Env(actor)))

MergeImport == \E text \in MergeImportTexts, actor \in Actors :
                  MergeBatch(import_file_cmd(db, mc_cache, MODE_OVERWRITE, text, Env(actor)))

MergeEdit == \E payload \in MergeEditPayloads : MergeSingle(edit_cmd(db, payload, now))

MergeRename == MergeSingle(nickchange_cmd(db, <<"a">>, <<"B">>, now))

MergeNext ==
    \/ MergeAdd
    \/ MergeRegister
    \/ MergeImport
    \/ MergeEdit
    \/ MergeRename

MergeSpec == Init /\ [][MergeNext]_vars

\* ------------------------------------------------------------ properties
\* the ids in the roster of the Team Record named team (none when it is missing)
RosterOf(d, team) ==
    IF Exists(d.teams, team_doc_ref(team))
    THEN Members(d.teams[team_doc_ref(team)].roster)
    ELSE {}

\* r is the reply of a 닉변 that went through
RenameOk(r) == r.cmd = "nickchange" /\ r.msg = "ok"

OldId(r) == normalize_nick(r.args[1])

NewId(r) == normalize_nick(r.args[2])

\* r is the reply of a 트레이드 that found both players
Traded(r) == r.cmd = "trade" /\ r.msg # "not_found"

\* the payload of 수정 takes the block form
IsBlockEdit(payload) ==
    Contains(payload, "\n") \/ Contains(payload, "(") \/ Contains(payload, "[")

\* C1: in every reachable state, every stored player's id is a member of the
\* roster of the Team Record named by the player's team field, and of no other
\* Team Record's roster.
C1_RosterAgreesWithTeam ==
    \A id \in DOMAIN db.players :
        /\ id \in RosterOf(db, db.players[id].team)
        /\ \A tm \in DOMAIN db.teams :
               id \in Members(db.teams[tm].roster)
                   => tm = team_doc_ref(db.players[id].team)

\* a player moved to Red by a command is still listed in the roster of Free
C1_Witness ==
    \E id \in DOMAIN db.players :
        /\ db.players[id].team = Red
        /\ id \in RosterOf(db, Red)
        /\ id \in RosterOf(db, Free)

\* C2: a successful rename(new, third) makes every identifier that resolved to
\* new resolve to third in one hop, and leaves no alias entry whose current id
\* is the key of another alias entry.
C2_AliasChainCollapses ==
    [][RenameOk(reply') =>
          /\ \A k \in DOMAIN db.aliases :
                 (resolve_nick(db, k) = OldId(reply') /\ k # NewId(reply'))
                     => resolve_nick(db', k) = NewId(reply')
          /\ \A k \in DOMAIN db'.aliases :
                 db'.aliases[k].current \notin DOMAIN db'.aliases]_vars

\* after two renames in a row an old identifier resolves to an id that is
\* itself an alias key and holds no player, while the player is stored elsewhere
C2_Witness ==
    /\ RenameOk(reply)
    /\ \E k \in DOMAIN db.aliases :
           /\ resolve_nick(db, k) = OldId(reply)
           /\ k # NewId(reply)
           /\ ~Exists(db.players, resolve_nick(db, k))
           /\ Exists(db.players, NewId(reply))

\* C3: immediately after a successful rename(old, new), resolve(old) and
\* resolve(new) both equal normalize_nick(new), and the player record is stored
\* at that id.
C3_RenameResolvesToNew ==
    RenameOk(reply) =>
        /\ resolve_nick(db, reply.args[1]) = NewId(reply)
        /\ resolve_nick(db, reply.args[2]) = NewId(reply)
        /\ Exists(db.players, NewId(reply))

\* a rename back to an earlier nickname went through and the new nickname
\* resolves away from the id the player is stored at
C3_Witness ==
    /\ RenameOk(reply)
    /\ Exists(db.players, NewId(reply))
    /\ resolve_nick(db, reply.args[2]) # NewId(reply)

\* C4: a successful rename(old, new) leaves at new a player record with the
\* team, pitches, form, position and creation metadata old had, no player record
\* at old, the game record of old (if any) at new with the same content and none
\* at old, and every other game record as it was.
C4_RenameCopiesRecords ==
    [][RenameOk(reply') =>
          /\ Exists(db'.players, NewId(reply'))
          /\ ~Exists(db'.players, OldId(reply'))
          /\ \A f \in {"team", "pitch_types", "form", "position",
                       "created_at", "created_by"} :
                 db'.players[NewId(reply')][f] = db.players[OldId(reply')][f]
          /\ Exists(db.records, OldId(reply')) =>
                 /\ Exists(db'.records, NewId(reply'))
                 /\ db'.records[NewId(reply')] = db.records[OldId(reply')]
                 /\ ~Exists(db'.records, OldId(reply'))
          /\ \A k \in (DOMAIN db.records) \ {OldId(reply'), NewId(reply')} :
                 Exists(db'.records, k) /\ db'.records[k] = db.records[k]]_vars

\* C5: a command addressed to a player by any identifier reports that the player
\* does not exist only when no record is stored at resolve(identifier); the
\* identifier is the first argument (the first word of the payload of 수정), and
\* for 트레이드 either argument.
C5_CommandsResolveFirst ==
    reply.msg = "not_found" =>
        /\ reply.cmd \in {"nickchange", "transfer", "recruit", "release", "delete"}
               => ~Exists(db.players, resolve_nick(db, reply.args[1]))
        /\ reply.cmd = "edit"
               => ~Exists(db.players,
                          resolve_nick(db, TakeUntil(Strip(reply.args[1]), {" ", "\n"})))
        /\ reply.cmd = "trade"
               => \/ ~Exists(db.players, resolve_nick(db, reply.args[1]))
                  \/ ~Exists(db.players, resolve_nick(db, reply.args[2]))

\* 닉변 addressed to an old nickname answered that the player does not exist
\* while the record is stored at the id the old nickname resolves to
C5_Witness ==
    /\ reply.cmd = "nickchange"
    /\ reply.msg = "not_found"
    /\ Exists(db.players, resolve_nick(db, reply.args[1]))

C7_DeleteTeamFreesMembers ==
    [][(reply'.cmd = "delete_team" /\ reply'.msg = "ok") =>
          \A P \in RosterOf(db, reply'.args[1]) \cap DOMAIN db.players :
              /\ db'.players[P].team = Free
              /\ P \in RosterOf(db', Free)
              /\ team_doc_ref(reply'.args[1]) # Free
                     => P \notin RosterOf(db', reply'.args[1])]_vars

\* 팀삭제 of Red moved a member: its team is "FA" and it is in the roster of
\* "FA", not of "Free"
C7_Witness ==
    /\ reply.cmd = "delete_team"
    /\ reply.msg = "ok"
    /\ reply.args[1] = Red
    /\ \E i \in 1..Len(reply.out.updated) :
           /\ db.players[reply.out.updated[i]].team = FA
           /\ reply.out.updated[i] \in RosterOf(db, FA)
           /\ reply.out.updated[i] \notin RosterOf(db, Free)

\* C8: trade(A, B) of two stored players ends with A's team field equal to B's
\* original team and B's equal to A's, A in the roster of B's original team and
\* B in the roster of A's, and (when the teams differ) neither in the roster of
\* its own original team.
C8_TradeSwapsTeams ==
    [][Traded(reply') =>
          LET A == resolve_nick(db, reply'.args[1])
              B == resolve_nick(db, reply'.args[2])
          IN /\ db'.players[A].team = db.players[B].team
             /\ db'.players[B].team = db.players[A].team
             /\ A \in RosterOf(db', db.players[B].team)
             /\ B \in RosterOf(db', db.players[A].team)
             /\ team_doc_ref(db.players[A].team) # team_doc_ref(db.players[B].team)
                    => /\ A \notin RosterOf(db', db.players[A].team)
                       /\ B \notin RosterOf(db', db.players[B].team)]_vars

\* 트레이드 failed after the team fields were swapped: a player has a team
\* whose roster does not list it
C8_Witness ==
    /\ reply.cmd = "trade"
    /\ reply.msg = "failed"
    /\ \E id \in {resolve_nick(db, reply.args[1]), resolve_nick(db, reply.args[2])} :
           id \notin RosterOf(db, db.players[id].team)

\* C9: running trade(A, B) once more right after trade(A, B) restores both
\* players' team fields and the membership of every Team Record's roster to
\* what they were before the first trade.
C9_TradeIsInvolution ==
    [][Traded(reply') =>
          LET A == resolve_nick(db, reply'.args[1])
              B == resolve_nick(db, reply'.args[2])
              twice == trade_cmd(db', reply'.args[1], reply'.args[2], now').db
          IN /\ twice.players[A].team = db.players[A].team
             /\ twice.players[B].team = db.players[B].team
             /\ \A tm \in (DOMAIN db.teams) \cup (DOMAIN twice.teams) :
                    RosterOf(twice, tm) = RosterOf(db, tm)]_vars

\* C10: when 추가, 등록, 가져오기파일 or the block form of 수정 changes the team
\* of a stored player from S to T, the player's id is afterwards not in S's
\* roster, is in T's roster, and a Team Record for T exists.
C10_TeamChangeMovesRoster ==
    [][(\/ reply'.cmd \in {"add", "register", "import"}
        \/ reply'.cmd = "edit" /\ IsBlockEdit(reply'.args[1])) =>
          \A id \in (DOMAIN db.players) \cap (DOMAIN db'.players) :
              db'.players[id].team # db.players[id].team =>
                  /\ id \notin RosterOf(db', db.players[id].team)
                  /\ id \in RosterOf(db', db'.players[id].team)
                  /\ Exists(db'.teams, team_doc_ref(db'.players[id].team))]_vars

\* 추가 updated a stored player to team Red and the id is still in the roster
\* of Free
C10_Witness ==
    /\ reply.cmd = "add"
    /\ \E i \in 1..Len(reply.out.updated) :
           /\ db.players[reply.out.updated[i]].team = Red
           /\ reply.out.updated[i] \in RosterOf(db, Free)

\* C11: after a successful release of a stored player, the player's team is
\* "Free", a Team Record "Free" exists and lists the player's id, and no other
\* Team Record's roster lists it.
C11_ReleaseJoinsFree ==
    (reply.cmd = "release" /\ reply.msg = "ok") =>
        /\ db.players[resolve_nick(db, reply.args[1])].team = Free
        /\ Exists(db.teams, team_doc_ref(Free))
        /\ resolve_nick(db, reply.args[1]) \in RosterOf(db, Free)
        /\ \A tm \in (DOMAIN db.teams) \ {team_doc_ref(Free)} :
               resolve_nick(db, reply.args[1]) \notin Members(db.teams[tm].roster)

\* a player was released from Red: its team is "Free" and the roster of "Free"
\* does not list it
C11_Witness ==
    /\ reply.cmd = "release"
    /\ reply.msg = "ok"
    /\ Exists(db.teams, team_doc_ref(Red))
    /\ db.players[resolve_nick(db, reply.args[1])].team = Free
    /\ resolve_nick(db, reply.args[1]) \notin RosterOf(db, Free)

\* C12: after a successful delete of a stored player P there is no player
\* record and no game record at resolve(P), P's id is not in the roster of the
\* team its record named, and every other player record, every other roster
\* entry and every other game record is as it was.
C12_DeleteRemovesPlayer ==
    [][(reply'.cmd = "delete" /\ reply'.msg = "ok") =>
          LET id == resolve_nick(db, reply'.args[1]) IN
          /\ ~Exists(db'.players, id)
          /\ ~Exists(db'.records, id)
          /\ id \notin RosterOf(db', db.players[id].team)
          /\ db'.players = DocDelete(db.players, id)
          /\ db'.records = DocDelete(db.records, id)
          /\ DOMAIN db'.teams = DOMAIN db.teams
          /\ \A tm \in DOMAIN db.teams :
                 db'.teams[tm].roster =
                     IF tm = team_doc_ref(db.players[id].team)
                     THEN ArrayRemove(db.teams[tm].roster, id)
                     ELSE db.teams[tm].roster]_vars

\* a player was just deleted while another player, a roster and another
\* player's game record remain
C12_Witness ==
    /\ reply.cmd = "delete"
    /\ reply.msg = "ok"
    /\ ~Exists(db.players, resolve_nick(db, reply.args[1]))
    /\ DOMAIN db.players # {}
    /\ DOMAIN db.records # {}
    /\ \E tm \in DOMAIN db.teams : db.teams[tm].roster # <<>>

\* the draft a one-block payload holds, as 추가 reads it
DraftOf(payload) ==
    IF Len(split_into_blocks(payload)[1]) = 1 /\ Contains(split_into_blocks(payload)[1][1], "|")
    THEN PipeFields(SplitOn(split_into_blocks(payload)[1][1], "|"))
    ELSE parse_block_to_player(split_into_blocks(payload)[1])

\* the base names of a pitch list, as written and in lower case
Bases(list) == {pitch_base_name(list[i]) : i \in 1..Len(list)}

LowerBases(list) == {LowerStr(pitch_base_name(list[i])) : i \in 1..Len(list)}

\* no two entries of the list have the same base name (in lower case)
UniqueBases(list) ==
    \A i, j \in 1..Len(list) :
        i # j => pitch_base_name(list[i]) # pitch_base_name(list[j])

UniqueLowerBases(list) ==
    \A i, j \in 1..Len(list) :
        i # j => LowerStr(pitch_base_name(list[i])) # LowerStr(pitch_base_name(list[j]))

\* r is the summary of a 추가 that updated a stored player
AddedTo(r) == r.cmd = "add" /\ r.out.updated # <<>>

\* the store with every updated_at left out of the comparison
MaskUpdated(d) ==
    [d EXCEPT !.players = [id \in DOMAIN d.players |-> [d.players[id] EXCEPT !.updated_at = 0]]]

\* C13: when 추가 merges a draft into a stored player, every resulting entry
\* whose base name is both in the stored list and in the draft is an entry of
\* the draft (it carries the draft's power).
C13_DraftPowerWins ==
    [][AddedTo(reply') =>
          \A i \in 1..Len(db'.players[reply'.out.updated[1]].pitch_types) :
              pitch_base_name(db'.players[reply'.out.updated[1]].pitch_types[i])
                      \in Bases(db.players[reply'.out.updated[1]].pitch_types)
                          \cap Bases(DraftOf(reply'.args[1]).pitch_types)
                  => db'.players[reply'.out.updated[1]].pitch_types[i]
                         \in Members(DraftOf(reply'.args[1]).pitch_types)]_vars

\* 추가 merged the draft F(30) into a player and the player still holds F(20)
C13_Witness ==
    /\ AddedTo(reply)
    /\ reply.args[1] = PitchPower
    /\ \E i \in 1..Len(db.players[reply.out.updated[1]].pitch_types) :
           db.players[reply.out.updated[1]].pitch_types[i] = <<"F", "(", "2", "0", ")">>

\* C14: when 추가 merges a draft into a stored player (neither list naming a
\* pitch twice, case ignored), the result holds one entry per base name, case
\* ignored: never two entries that differ only by case.
C14_PitchIdentityIgnoresCase ==
    [][(/\ AddedTo(reply')
        /\ UniqueLowerBases(db.players[reply'.out.updated[1]].pitch_types)
        /\ UniqueLowerBases(DraftOf(reply'.args[1]).pitch_types)) =>
          UniqueLowerBases(db'.players[reply'.out.updated[1]].pitch_types)]_vars

\* 추가 merged the draft f(55) and the player holds both F(..) and f(55)
C14_Witness ==
    /\ AddedTo(reply)
    /\ reply.args[1] = PitchLower
    /\ {<<"F">>, <<"f">>} \subseteq Bases(db.players[reply.out.updated[1]].pitch_types)

\* C15: when 추가 merges a draft into a stored player, every stored base name
\* is still present, every base name of the draft is present, and a draft with
\* no pitches leaves the stored list unchanged.
C15_AppendKeepsStoredPitches ==
    [][AddedTo(reply') =>
          /\ Bases(db.players[reply'.out.updated[1]].pitch_types)
                 \subseteq Bases(db'.players[reply'.out.updated[1]].pitch_types)
          /\ Bases(DraftOf(reply'.args[1]).pitch_types)
                 \subseteq Bases(db'.players[reply'.out.updated[1]].pitch_types)
          /\ DraftOf(reply'.args[1]).pitch_types = <<>>
                 => db'.players[reply'.out.updated[1]].pitch_types
                        = db.players[reply'.out.updated[1]].pitch_types]_vars

\* 추가 merged a draft with pitches into a player that now holds a stored
\* pitch the draft does not name next to the draft's own
C15_Witness ==
    /\ AddedTo(reply)
    /\ DraftOf(reply.args[1]).pitch_types # <<>>
    /\ Bases(db.players[reply.out.updated[1]].pitch_types)
           \ Bases(DraftOf(reply.args[1]).pitch_types) # {}

\* C16: applying 추가 with the same block once more, right after it was applied
\* to a stored player, leaves every record (updated_at aside), roster, game
\* record and alias as the first application left them.
C16_AppendIsIdempotent ==
    [][AddedTo(reply') =>
          MaskUpdated(add_one_cmd(db', mc_cache', reply'.args[1], Env("u1")).db)
              = MaskUpdated(db')]_vars

\* 추가 merged a |-separated draft into a stored player that now holds two
\* pitches or more
C16_Witness ==
    /\ AddedTo(reply)
    /\ reply.args[1] = PipeBlankTeam
    /\ Len(db.players[reply.out.updated[1]].pitch_types) >= 2

\* C17: after the block form of 수정 on a stored player, the player's pitch
\* list is exactly the list parsed from the block: empty when the block names
\* no pitch.
C17_BlockEditReplacesPitches ==
    [][(reply'.cmd = "edit" /\ reply'.msg = "ok" /\ IsBlockEdit(reply'.args[1])) =>
          db'.players[resolve_nick(db, DraftOf(reply'.args[1]).nickname)].pitch_types
              = parse_block_to_player(split_into_blocks(reply'.args[1])[1]).pitch_types]_vars

\* the block form of 수정 with an arm angle and no pitches was applied to a
\* stored player: the player has the arm angle and no pitches
C17_Witness ==
    /\ reply.cmd = "edit"
    /\ reply.msg = "ok"
    /\ reply.args[1] = FormOnly
    /\ nops >= 2
    /\ db.players[resolve_nick(db, <<"a">>)].pitch_types = <<>>
    /\ db.players[resolve_nick(db, <<"a">>)].form = <<"S">>

\* C18: in every reachable state no stored player's pitch list holds two
\* entries with the same base name.
C18_PitchBasesUnique ==
    \A id \in DOMAIN db.players : UniqueBases(db.players[id].pitch_types)

\* a stored player holds F(20) and F(30)
C18_Witness ==
    \E id \in DOMAIN db.players :
        {<<"F", "(", "2", "0", ")">>, <<"F", "(", "3", "0", ")">>}
            \subseteq Members(db.players[id].pitch_types)

\* the block a batch command or 수정 was given
BlockGiven(r) == IF r.cmd = "import" THEN r.args[2] ELSE r.args[1]

\* the payload is one block that mentions no team at all
NoTeamDraft(payload) ==
    /\ Len(split_into_blocks(payload)) = 1
    /\ ~Contains(payload, "[")
    /\ ~Contains(payload, "|")

\* r answers 추가, 등록, 가져오기파일 without a team override or the block form
\* of 수정, given one block that mentions no team
NoTeamMerge(r) ==
    /\ \/ r.cmd \in {"add", "register"}
       \/ r.cmd = "import" /\ ImportArgs(r.args[1]).team_override = None
       \/ r.cmd = "edit" /\ IsBlockEdit(r.args[1])
    /\ NoTeamDraft(BlockGiven(r))

\* C19: when 추가, 등록, 가져오기파일 without a team override or the block form
\* of 수정 is given a draft that mentions no team, a stored player's team field
\* and the membership of every roster are unchanged, and a player created by the
\* command has team "Free".
C19_AbsentTeamKeepsTeam ==
    [][NoTeamMerge(reply') =>
          IF Exists(db.players, resolve_nick(db, DraftOf(BlockGiven(reply')).nickname))
          THEN /\ db'.players[resolve_nick(db, DraftOf(BlockGiven(reply')).nickname)].team
                      = db.players[resolve_nick(db, DraftOf(BlockGiven(reply')).nickname)].team
               /\ \A tm \in (DOMAIN db.teams) \cup (DOMAIN db'.teams) :
                      RosterOf(db', tm) = RosterOf(db, tm)
          ELSE Exists(db'.players, resolve_nick(db, DraftOf(BlockGiven(reply')).nickname))
                   => db'.players[resolve_nick(db, DraftOf(BlockGiven(reply')).nickname)].team
                          = Free]_vars

\* 추가 merged a draft that mentions no team into a stored player of team Red
C19_Witness ==
    /\ AddedTo(reply)
    /\ NoTeamMerge(reply)
    /\ Exists(db.players, resolve_nick(db, DraftOf(reply.args[1]).nickname))
    /\ db.players[resolve_nick(db, DraftOf(reply.args[1]).nickname)].team = Red

\* the blocks of the inputs with an explicitly blank team
BlankTeamPayloads == {BlankTeam, PipeBlankTeam}

\* C20: 추가 or the block form of 수정 given a block with an explicitly blank
\* team (empty brackets, or an empty team field in a |-separated line) sets the
\* team of a stored player to "Free".
C20_BlankTeamClearsTeam ==
    [][(/\ reply'.cmd \in {"add", "edit"}
        /\ reply'.args[1] \in BlankTeamPayloads
        /\ Exists(db.players, resolve_nick(db, DraftOf(reply'.args[1]).nickname))) =>
          db'.players[resolve_nick(db, DraftOf(reply'.args[1]).nickname)].team = Free]_vars

\* a block with a blank team was applied to a stored player whose team is
\* still Red
C20_Witness ==
    /\ reply.cmd \in {"add", "edit"}
    /\ reply.msg \in {"summary", "ok"}
    /\ reply.args[1] \in BlankTeamPayloads
    /\ Exists(db.players, resolve_nick(db, DraftOf(reply.args[1]).nickname))
    /\ db.players[resolve_nick(db, DraftOf(reply.args[1]).nickname)].team = Red

\* the id a one-block payload is about, resolved in store d
TargetOf(d, payload) == resolve_nick(d, DraftOf(payload).nickname)

\* the payload is one block whose draft gives no arm angle and no role: a
\* header without parentheses, or a |-separated line whose role and arm-angle
\* fields are blank
NoFormNoRole(payload) ==
    /\ Len(split_into_blocks(payload)) = 1
    /\ DraftOf(payload).form = <<>>
    /\ DraftOf(payload).position \in {<<>>, NA}

\* C21: when 추가, 등록 or the block form of 수정 is applied to a stored player
\* with a draft that gives no arm angle and no role, the stored form and
\* position are the same after the command.
C21_UnspecifiedKeepsFormAndRole ==
    [][(/\ \/ reply'.cmd \in {"add", "register"}
           \/ reply'.cmd = "edit" /\ IsBlockEdit(reply'.args[1])
        /\ NoFormNoRole(reply'.args[1])
        /\ Exists(db.players, TargetOf(db, reply'.args[1]))) =>
          /\ db'.players[TargetOf(db, reply'.args[1])].form
                 = db.players[TargetOf(db, reply'.args[1])].form
          /\ db'.players[TargetOf(db, reply'.args[1])].position
                 = db.players[TargetOf(db, reply'.args[1])].position]_vars

\* 추가 or 등록 was given a draft without arm angle and role for a stored
\* player that had been created with the role P, and the role is now "N/A"
C21_Witness ==
    /\ reply.cmd \in {"add", "register"}
    /\ reply.msg = "summary"
    /\ NoFormNoRole(reply.args[1])
    /\ reply.out.created \o reply.out.updated = <<TargetOf(db, reply.args[1])>>
    /\ Exists(db.players, <<"c">>)
    /\ db.players[<<"c">>].position = NA
    /\ db.players[<<"c">>].pitch_types = <<<<"F", "(", "3", "0", ")">>>>

\* ------------------------------------- records under a clock and two actors
\* commands per behaviour of StampSpec
MaxStampOps == 3

StampActors == {"u1", "u2"}

\* blocks without role and arm angle (a header, a |-separated line with a blank
\* role, a |-separated line of two fields) and one block with an arm angle
StampAddPayloads == {<<"a">>, <<"a", "|", "a", "|", "|">>, <<"B", " ", "(", "S", ")", "\n", "F">>}

StampRegisterPayloads == {<<"a">>, <<"B", "|", "B">>}

StampImportTexts == {<<"a", "|", "a", "|", "|">>, <<"B">>}

\* a block edit and single-field edits, one of them of created_by
StampEditPayloads == {<<"a", " ", "(", "U", ")">>, <<"B", " ", "f", "o", "r", "m", " ", "U">>, <<"a", " ", "c", "r", "e", "a", "t", "e", "d", "_", "b", "y", " ", "x">>}

\* a handler ran at time now, and the clock moved on; r.cache is the cache of
\* the Mojang check as the handler leaves it
StampStep(r) ==
    /\ nops < MaxStampOps
    /\ nops' = nops + 1
    /\ db' = r.db
    /\ reply' = r.reply
    /\ mc_cache' = r.cache
    /\ now' = now + 1
    /\ UNCHANGED <<verify_mc, aliases_up, suspended>>

StampNext ==
    \/ \E payload \in StampAddPayloads, actor \in StampActors :
           StampStep(add_one_cmd(db, mc_cache, payload, Env(actor)))
    \/ \E payload \in StampRegisterPayloads, actor \in StampActors :
           StampStep(bulk_register_cmd(db, mc_cache, payload, Env(actor)))
    \/ \E text \in StampImportTexts, actor \in StampActors :
           StampStep(import_file_cmd(db, mc_cache, MODE_OVERWRITE, text, Env(actor)))
    \/ \E payload \in StampEditPayloads :
           StampStep(edit_cmd(db, payload, now) @@ [cache |-> mc_cache])
    \/ \E nick \in {<<"a">>, <<"B">>} :
           StampStep(nickchange_cmd(db, nick, <<"c">>, now) @@ [cache |-> mc_cache])
    \/ \E nick \in {<<"a">>, <<"B">>} :
           StampStep(transfer_cmd(db, nick, Red, now) @@ [cache |-> mc_cache])
    \/ \E nick \in {<<"a">>, <<"B">>} :
           StampStep(recruit_cmd(db, nick, Red, now) @@ [cache |-> mc_cache])
    \/ StampStep(trade_cmd(db, <<"a">>, <<"B">>, now) @@ [cache |-> mc_cache])
    \/ \E nick \in {<<"a">>, <<"B">>} :
           StampStep(release_cmd(db, nick, now) @@ [cache |-> mc_cache])

StampSpec == Init /\ [][StampNext]_vars

\* the draft a one-block payload holds, as the command of reply r reads it:
\* 추가 reads a |-separated line itself, the others parse it
DraftGiven(r) ==
    IF r.cmd = "add" THEN DraftOf(BlockGiven(r))
    ELSE parse_block_to_player(split_into_blocks(BlockGiven(r))[1])

\* C22: every player record that 추가, 등록 or 가져오기파일 creates from a draft
\* without role and arm angle is stored with position "N/A" and form "".
C22_CreatedWithDefaults ==
    [][(/\ reply'.cmd \in {"add", "register", "import"}
        /\ Len(split_into_blocks(BlockGiven(reply'))) = 1
        /\ DraftGiven(reply').form = <<>>
        /\ DraftGiven(reply').position \in {<<>>, NA}
        /\ ~Exists(db.players, resolve_nick(db, DraftGiven(reply').nickname))
        /\ Exists(db'.players, resolve_nick(db, DraftGiven(reply').nickname))) =>
          /\ db'.players[resolve_nick(db, DraftGiven(reply').nickname)].position = NA
          /\ db'.players[resolve_nick(db, DraftGiven(reply').nickname)].form = <<>>]_vars

\* 추가 created a player from a |-separated line with a blank role, and the
\* stored position is the empty string
C22_Witness ==
    /\ reply.cmd = "add"
    /\ reply.args = <<<<"a", "|", "a", "|", "|">>>>
    /\ reply.out.created = <<<<"a">>>>
    /\ db.players[<<"a">>].position = <<>>
    /\ db.players[<<"a">>].form = <<>>

\* the commands of C23 that write to one player named by their first argument
OneTarget(r) == r.cmd \in {"transfer", "recruit", "release", "edit"} /\ r.msg = "ok"

\* C23: a command that writes to a stored player record leaves created_at and
\* created_by as they were and sets updated_at to the time of the command (닉변
\* does so for the record it moves to the new id); a record a command creates
\* has created_at at the time of the command and created_by an invoking actor.
C23_StampsPreserved ==
    [][reply'.cmd \in {"add", "register", "import", "edit", "transfer", "recruit",
                       "trade", "release", "nickchange"} =>
          /\ \A id \in (DOMAIN db.players) \cap (DOMAIN db'.players) :
                 db'.players[id] # db.players[id] =>
                     /\ db'.players[id].created_at = db.players[id].created_at
                     /\ db'.players[id].created_by = db.players[id].created_by
                     /\ db'.players[id].updated_at = now
          /\ OneTarget(reply') =>
                 db'.players[TargetOf(db, reply'.args[1])].updated_at = now
          /\ (reply'.cmd = "nickchange" /\ reply'.msg = "ok") =>
                 /\ db'.players[NewId(reply')].created_at = db.players[OldId(reply')].created_at
                 /\ db'.players[NewId(reply')].created_by = db.players[OldId(reply')].created_by
                 /\ db'.players[NewId(reply')].updated_at = now
          /\ reply'.cmd # "nickchange" =>
                 \A id \in (DOMAIN db'.players) \ (DOMAIN db.players) :
                     /\ db'.players[id].created_at = now
                     /\ db'.players[id].created_by \in StampActors]_vars

\* the single-field form of 수정 wrote the typed text into created_by of a
\* player that another command had created
C23_Witness ==
    /\ reply.cmd = "edit"
    /\ reply.msg = "ok"
    /\ reply.args = <<<<"a", " ", "c", "r", "e", "a", "t", "e", "d", "_", "b", "y", " ", "x">>>>
    /\ db.players[<<"a">>].created_by = TypedActor
    /\ db.players[<<"a">>].created_at < db.players[<<"a">>].updated_at

\* C24: in every reachable state the key of each stored player record is
\* normalize_nick of the nickname stored in the record.
C24_KeyIsNormalizedNickname ==
    \A id \in DOMAIN db.players : id = normalize_nick(db.players[id].nickname)

\* 추가 created a record through the alias of a player that no longer exists:
\* the record is stored under the alias target and holds the typed nickname
C24_Witness ==
    /\ reply.cmd = "add"
    /\ reply.out.created # <<>>
    /\ \E id \in DOMAIN db.players :
           /\ reply.out.created = <<id>>
           /\ Exists(db.aliases, normalize_nick(db.players[id].nickname))
           /\ id # normalize_nick(db.players[id].nickname)

\* ------------------------------------ commands while alias reads may fail
\* commands per behaviour of FaultSpec
MaxFaultOps == 4

\* what the handlers read while the reads of the aliases collection raise:
\* resolve_nick catches the exception and returns the normalized nickname, as
\* it does when no alias is stored
StoreView == IF aliases_up THEN db ELSE [db EXCEPT !.aliases = EmptyColl]

\* a handler ran on StoreView; the aliases collection itself is as it was when
\* the handler could not read it
FaultStep(r) ==
    /\ nops < MaxFaultOps
    /\ nops' = nops + 1
    /\ db' = IF aliases_up THEN r.db ELSE [r.db EXCEPT !.aliases = db.aliases]
    /\ reply' = r.reply
    /\ UNCHANGED <<verify_mc, mc_cache, now, aliases_up, suspended>>

\* the reads of the aliases collection begin or cease to fail
Outage ==
    /\ aliases_up' = ~aliases_up
    /\ UNCHANGED <<db, verify_mc, mc_cache, now, reply, nops, suspended>>

\* 닉변 is only issued while the aliases collection can be read and written
FaultNext ==
    \/ \E payload \in {<<"a", "\n", "\n", "B">>, <<"a">>} :
           FaultStep(add_one_cmd(StoreView, mc_cache, payload, Env("u1")))
    \/ FaultStep(edit_cmd(StoreView, <<"a", " ", "t", "e", "a", "m", " ", "R", "e", "d">>, now))
    \/ aliases_up /\ FaultStep(nickchange_cmd(db, <<"a">>, <<"c">>, now))
    \/ FaultStep(transfer_cmd(StoreView, <<"a">>, Red, now))
    \/ FaultStep(delete_cmd(StoreView, <<"a">>))
    \/ \E teamname \in RawTeams : FaultStep(delete_team_cmd(StoreView, teamname, now))
    \/ Outage

FaultSpec == Init /\ [][FaultNext]_vars

ReportsFailure(r) ==
    \/ r.msg \in {"failed", "error"}
    \/ /\ r.msg = "summary"
       /\ r.out.created = <<>>
       /\ r.out.updated = <<>>
       /\ r.out.skipped = <<>>
       /\ r.out.errors # <<>>

\* C28: a command that resolves a nickname while the reads of the aliases
\* collection fail reports a failure and writes nothing.
C28_AliasFailureIsReported ==
    [][(/\ nops' = nops + 1
        /\ ~aliases_up
        /\ reply'.cmd \in {"add", "edit", "transfer", "delete"}) =>
          /\ ReportsFailure(reply')
          /\ db' = db]_vars

\* while the alias a -> c could not be read, 추가 a created a second record
\* under the id a beside the renamed player c
C28_Witness ==
    /\ ~aliases_up
    /\ reply.cmd = "add"
    /\ reply.out.created = <<<<"a">>>>
    /\ Exists(db.aliases, <<"a">>)
    /\ db.aliases[<<"a">>].current = <<"c">>
    /\ Exists(db.players, <<"c">>)
    /\ Exists(db.players, <<"a">>)

\* ------------------------------------------- batches under the Mojang check
\* commands per behaviour of VerifySpec
MaxVerifyOps == 3

\* what a request to the Mojang API for each nickname ends in, if one is sent
MojangAnswers == [{<<"a">>, <<"b">>, <<"c">>} -> {"200", "404", "timeout"}]

\* two blocks; a |-separated line of two fields, which 추가 rejects, before a
\* block; one block
VerifyAddPayloads == {<<"a", "\n", "\n", "B">>, <<"a", "|", "a", "\n", "\n", "B">>, <<"c">>}

VerifyRegisterPayloads == {<<"a", "\n", "\n", "B">>, <<"c">>}

\* VERIFY_MC is set or not in the environment of the process
VerifyInit ==
    /\ db = EmptyDb
    /\ verify_mc \in BOOLEAN
    /\ mc_cache = EmptyColl
    /\ now = 0
    /\ reply = Reply("start", <<>>, "ready")
    /\ nops = 0
    /\ aliases_up = TRUE
    /\ suspended = {}

VerifyEnv(mojang) == [verify |-> verify_mc, mojang |-> mojang, actor |-> "u1", t |-> now]

VerifyStep(r) ==
    /\ nops < MaxVerifyOps
    /\ nops' = nops + 1
    /\ db' = r.db
    /\ reply' = r.reply
    /\ mc_cache' = r.cache
    /\ UNCHANGED <<verify_mc, now, aliases_up, suspended>>

VerifyNext ==
    \/ \E payload \in VerifyAddPayloads, mojang \in MojangAnswers :
           VerifyStep(add_one_cmd(db, mc_cache, payload, VerifyEnv(mojang)))
    \/ \E payload \in VerifyRegisterPayloads, mojang \in MojangAnswers :
           VerifyStep(bulk_register_cmd(db, mc_cache, payload, VerifyEnv(mojang)))
    \/ \E args \in {MODE_SKIP, MODE_OVERWRITE}, mojang \in MojangAnswers :
           VerifyStep(import_file_cmd(db, mc_cache, args, <<"c", "\n", "\n", "B">>, VerifyEnv(mojang)))
    \/ VerifyStep(nickchange_cmd(db, <<"a">>, <<"c">>, now) @@ [cache |-> mc_cache])

VerifySpec == VerifyInit /\ [][VerifyNext]_vars

\* the blocks of the payload that reply r answers
BlocksGiven(r) == split_into_blocks(BlockGiven(r))

\* block i is a |-separated line read by 추가
AddPipe(r, i) ==
    /\ r.cmd = "add"
    /\ Len(BlocksGiven(r)[i]) = 1
    /\ Contains(BlocksGiven(r)[i][1], "|")

\* the nickname of block i as the command reads it
BlockNick(r, i) ==
    IF AddPipe(r, i) THEN Strip(SplitOn(BlocksGiven(r)[i][1], "|")[1])
    ELSE parse_block_to_player(BlocksGiven(r)[i]).nickname

\* block i names a player and, for 추가, is no |-separated line of fewer than
\* four fields
WellFormed(r, i) ==
    /\ AddPipe(r, i) => Len(SplitOn(BlocksGiven(r)[i][1], "|")) >= 4
    /\ normalize_nick(BlockNick(r, i)) # <<>>

\* r is the summary of a batch command
BatchDone(r) == r.cmd \in {"add", "register", "import"} /\ r.msg = "summary"

\* C25: the Mojang check gates only creation.  With VERIFY_MC set, a block of
\* 추가, 등록 or 가져오기파일 whose nickname has no stored player is verified;
\* when the check is false (404, timeout, error) the block is an error and
\* neither a player record nor a roster entry exists for the id afterwards (a
\* one-block command leaves the store unchanged); a block whose nickname
\* resolves to a stored player is not verified and is no error.  With VERIFY_MC
\* unset no check is made and no well-formed block is an error.
C25_VerificationGatesCreation ==
    [][(nops' = nops + 1 /\ BatchDone(reply')) =>
          \A i \in 1..Len(BlocksGiven(reply')) :
              WellFormed(reply', i) =>
                  LET key == normalize_nick(BlockNick(reply', i))
                      id == resolve_nick(db, BlockNick(reply', i))
                  IN IF ~verify_mc
                     THEN i \notin Members(reply'.out.errors) /\ mc_cache' = mc_cache
                     ELSE IF Exists(db.players, id)
                     THEN /\ i \notin Members(reply'.out.errors)
                          /\ key \notin DOMAIN mc_cache => key \notin DOMAIN mc_cache'
                     ELSE /\ key \in DOMAIN mc_cache'
                          /\ mc_cache'[key] =>
                                 /\ i \notin Members(reply'.out.errors)
                                 /\ Exists(db'.players, id)
                          /\ ~mc_cache'[key] =>
                                 /\ i \in Members(reply'.out.errors)
                                 /\ ~Exists(db'.players, id)
                                 /\ \A tm \in DOMAIN db'.teams : id \notin RosterOf(db', tm)
                                 /\ Len(BlocksGiven(reply')) = 1 => db' = db]_vars

\* with VERIFY_MC set, 추가 of two blocks found the first nickname invalid,
\* created no record for it and created the player of the second block
C25_Witness ==
    /\ verify_mc
    /\ reply.cmd = "add"
    /\ reply.args = <<<<"a", "\n", "\n", "B">>>>
    /\ reply.out.errors = <<1>>
    /\ reply.out.created = <<<<"b">>>>
    /\ mc_cache[<<"a">>] = FALSE
    /\ ~Exists(db.players, <<"a">>)
    /\ Exists(db.players, <<"b">>)

\* the number of entries of list that equal x
Occurrences(list, x) == Cardinality({k \in 1..Len(list) : list[k] = x})

MaxConcOps == 3

\* one narrative block each, so that a handler has one await between its
\* existence check and its write and ends after the write
ConcPayloads == {<<"a">>, <<"a", " ", "(", "S", ")", "\n", "F">>}

ConcInit ==
    /\ db = EmptyDb
    /\ verify_mc = TRUE
    /\ mc_cache = EmptyColl
    /\ now = 0
    /\ reply = Reply("start", <<>>, "ready")
    /\ nops = 0
    /\ aliases_up = TRUE
    /\ suspended = {}

\* a handler runs up to its first await.  When the player of its block is
\* stored it makes no Mojang check before its writes and r is what it returns.
\* Otherwise it has read exists = False, calls is_mc_username and waits in
\* asyncio.sleep with the result; the event loop runs other handlers meanwhile.
\* call tells apart two waiting handlers of the same command and payload
ConcBegin(cmd, args, p, target_norm, actor, r) ==
    /\ nops < MaxConcOps
    /\ nops' = nops + 1
    /\ IF Exists(db.players, target_norm)
       THEN /\ db' = r.db
            /\ reply' = r.reply
            /\ mc_cache' = r.cache
            /\ UNCHANGED suspended
       ELSE /\ suspended' = suspended \cup
                   {[cmd |-> cmd, args |-> args, p |-> p, target_norm |-> target_norm,
                     actor |-> actor, call |-> nops,
                     valid |-> is_mc_username(verify_mc, mc_cache, p.nickname, AllValid).valid]}
            /\ mc_cache' = is_mc_username(verify_mc, mc_cache, p.nickname, AllValid).cache
            /\ UNCHANGED <<db, reply>>
    /\ UNCHANGED <<verify_mc, now, aliases_up>>

\* the rest of a suspended handler h, run on the store as it is now with the
\* value of exists that h read before the await
ConcRest(h, acc, mc) ==
    CASE h.cmd = "add" ->
             AddNew(acc, 1, h.target_norm, AddData(h.p, Env(h.actor)), mc)
      [] h.cmd = "register" ->
             RegisterWrite(acc, 1, h.target_norm,
                           RegisterData(h.p, h.target_norm, FALSE, NoPlayer, Env(h.actor)), mc)
      [] h.cmd = "import" ->
             ImportWrite(acc, 1, h.target_norm, FALSE,
                         ImportData(h.p, h.target_norm, FALSE, NoPlayer,
                                    ImportTeam(h.p, FALSE, NoPlayer,
                                               ImportArgs(h.args[1]).team_override),
                                    Env(h.actor)),
                         ImportTeam(h.p, FALSE, NoPlayer, ImportArgs(h.args[1]).team_override),
                         mc)

ConcFinish(h, r) ==
    /\ suspended' = suspended \ {h}
    /\ db' = r.db
    /\ reply' = r.reply
    /\ mc_cache' = r.cache
    /\ UNCHANGED <<verify_mc, now, nops, aliases_up>>

ConcResume ==
    \E h \in suspended :
        ConcFinish(h, Summary(ConcRest(h, Acc0(db, mc_cache),
                                       [valid |-> h.valid, cache |-> mc_cache]),
                              h.cmd, h.args))

ConcNext ==
    \/ \E payload \in ConcPayloads, actor \in StampActors :
           ConcBegin("add", <<payload>>, parse_block_to_player(split_into_blocks(payload)[1]),
                     TargetOf(db, payload), actor,
                     add_one_cmd(db, mc_cache, payload, Env(actor)))
    \/ \E payload \in ConcPayloads, actor \in StampActors :
           ConcBegin("register", <<payload>>, parse_block_to_player(split_into_blocks(payload)[1]),
                     TargetOf(db, payload), actor,
                     bulk_register_cmd(db, mc_cache, payload, Env(actor)))
    \/ \E payload \in ConcPayloads, actor \in StampActors :
           ConcBegin("import", <<<<>>, payload>>, parse_block_to_player(split_into_blocks(payload)[1]),
                     TargetOf(db, payload), actor,
                     import_file_cmd(db, mc_cache, <<>>, payload, Env(actor)))
    \/ ConcResume

ConcSpec == ConcInit /\ [][ConcNext]_vars

\* C29: commands on one identifier are serialized.  A 추가 or 등록 that writes
\* to a player whose record is stored right before the write merges into that
\* record: 추가 does not report the player as newly created and keeps the
\* stored pitches, and the record keeps its created_by.
C29_SameIdentifierSerialized ==
    [][(db' # db /\ reply'.cmd \in {"add", "register"}) =>
          \A id \in DOMAIN db.players :
              id \in Members(reply'.out.created \o reply'.out.updated) =>
                  /\ db'.players[id].created_by = db.players[id].created_by
                  /\ reply'.cmd = "add" =>
                         /\ id \notin Members(reply'.out.created)
                         /\ Members(db.players[id].pitch_types)
                                \subseteq Members(db'.players[id].pitch_types)]_vars

\* two commands for the player a were begun before either wrote and both have
\* ended; the last to end is a 추가 that reports a as newly created
C29_Witness ==
    /\ nops = 2
    /\ suspended = {}
    /\ reply.cmd = "add"
    /\ reply.args = <<<<"a">>>>
    /\ reply.out.created = <<<<"a">>>>
    /\ Exists(db.players, <<"a">>)

\* C30: 가져오기파일 in skip mode changes no player record that is stored at
\* the moment of its write.
C30_SkipModeNeverOverwrites ==
    [][(/\ db' # db
        /\ reply'.cmd = "import"
        /\ ImportArgs(reply'.args[1]).mode = MODE_SKIP) =>
          \A id \in DOMAIN db.players :
              /\ Exists(db'.players, id)
              /\ db'.players[id] = db.players[id]]_vars

\* two commands for the player a were begun before either wrote and both have
\* ended; the last to end is a 가져오기파일 in skip mode that reports a as
\* added, and the record holds its draft
C30_Witness ==
    /\ nops = 2
    /\ suspended = {}
    /\ reply.cmd = "import"
    /\ ImportArgs(reply.args[1]).mode = MODE_SKIP
    /\ reply.out.created = <<<<"a">>>>
    /\ reply.out.skipped = <<>>
    /\ db.players[<<"a">>].pitch_types = <<>>

\* C31: after a 트레이드 that found both players ends, with the success
\* message or with the failure message, each of the two players whose team
\* field the command changed is a member of the roster of the team its
\* record now names
C31_TradeLeavesRostersAgreeing ==
    [][(nops' = nops + 1 /\ Traded(reply')) =>
          \A i \in {1, 2} :
              LET id == player_doc_ref(db, reply'.args[i]) IN
              db'.players[id].team # db.players[id].team
                  => id \in RosterOf(db', db'.players[id].team)]_vars

\* a 트레이드 that reported the failure after it changed a team field
C31_Witness ==
    /\ Traded(reply)
    /\ reply.msg = "failed"
    /\ db.players[player_doc_ref(db, reply.args[1])].team
           # db.players[player_doc_ref(db, reply.args[2])].team
    /\ \E i \in {1, 2} :
           player_doc_ref(db, reply.args[i])
               \notin RosterOf(db, db.players[player_doc_ref(db, reply.args[i])].team)

\* C32: in every reachable state every stored player is found under its own
\* id: resolve_nick of the key of a stored player record is that key, so no
\* alias entry keyed by a stored player's id leads elsewhere
C32_StoredPlayerResolvesToItself ==
    \A p \in DOMAIN db.players : resolve_nick(db, p) = p

\* a player renamed back to a name it had before: the 닉변 went through, the
\* player is stored at the new id and an alias entry is keyed by that id
C32_Witness ==
    /\ RenameOk(reply)
    /\ Exists(db.players, NewId(reply))
    /\ Exists(db.aliases, NewId(reply))
    /\ Exists(db.aliases, OldId(reply))

\* C33: a 닉변 that reports the failure has changed nothing: the player
\* record is still stored at the old id, no record is stored at the new id,
\* and the game records and the alias entries are those of before
C33_FailedRenameChangesNothing ==
    [][(nops' = nops + 1 /\ reply'.cmd = "nickchange" /\ reply'.msg = "failed") =>
          /\ Exists(db'.players, OldId(reply'))
          /\ ~Exists(db'.players, NewId(reply'))
          /\ db'.records = db.records
          /\ db'.aliases = db.aliases]_vars

\* a 닉변 of a player whose team has no Team Record reported the failure
C33_Witness ==
    /\ reply.cmd = "nickchange"
    /\ reply.msg = "failed"
    /\ \E p \in DOMAIN db.players :
           Truthy(db.players[p].team) /\ ~TeamCanUpdate(db, db.players[p].team)

\* C34: a 닉변 that went through, of a player whose record names the team T,
\* leaves T's roster without the old id and with the new id, and leaves every
\* other Team Record as it was
C34_RenameMovesRosterEntry ==
    [][(nops' = nops + 1 /\ RenameOk(reply')) =>
          LET T == db.players[OldId(reply')].team IN
          /\ Truthy(T) =>
                 /\ OldId(reply') \notin RosterOf(db', T)
                 /\ NewId(reply') \in RosterOf(db', T)
          /\ \A k \in (DOMAIN db.teams) \cup (DOMAIN db'.teams) :
                 (~Truthy(T) \/ k # team_doc_ref(T)) =>
                     /\ k \in DOMAIN db.teams
                     /\ k \in DOMAIN db'.teams
                     /\ db'.teams[k] = db.teams[k]]_vars

\* a player of Red was renamed while another Team Record is stored: Red's
\* roster lists the new id and not the old one
C34_Witness ==
    /\ RenameOk(reply)
    /\ Exists(db.players, NewId(reply))
    /\ db.players[NewId(reply)].team = Red
    /\ NewId(reply) \in RosterOf(db, Red)
    /\ OldId(reply) \notin RosterOf(db, Red)
    /\ Cardinality(DOMAIN db.teams) > 1

\* C35: 이적 and 영입 of a stored player always go through: afterwards the
\* record names the normalized team T, the id is in the roster of T's Team
\* Record (created when it was missing) and, when the previous team is another
\* one, the id is not in that team's roster, whether or not the previous team
\* has a Team Record
C35_MoveAlwaysCompletes ==
    [][(nops' = nops + 1 /\ reply'.cmd \in {"transfer", "recruit"}
            /\ Exists(db.players, player_doc_ref(db, reply'.args[1]))) =>
          LET id == player_doc_ref(db, reply'.args[1])
              S == db.players[id].team
              T == normalize_team_name(reply'.args[2])
          IN /\ reply'.msg = "ok"
             /\ db'.players[id].team = T
             /\ Exists(db'.teams, team_doc_ref(T))
             /\ id \in RosterOf(db', T)
             /\ (Truthy(S) /\ team_doc_ref(S) # team_doc_ref(T))
                    => id \notin RosterOf(db', S)]_vars

\* a released player, whose team Free has no Team Record, was moved to Red
C35_Witness ==
    /\ reply.cmd = "transfer"
    /\ reply.msg = "ok"
    /\ normalize_team_name(reply.args[2]) = Red
    /\ ~Exists(db.teams, team_doc_ref(Free))
    /\ db.players[player_doc_ref(db, reply.args[1])].status = <<"released">>
    /\ player_doc_ref(db, reply.args[1]) \in RosterOf(db, Red)

\* ------------------------------------------- 닉변 among waiting handlers
\* 닉변 makes its existence checks and its writes with synchronous store calls:
\* await ensure_db_or_warn_ctx(ctx) returns without yielding when db is set and
\* the next await is the ctx.send of the result, so the event loop runs no
\* other handler in between and the handler is one step.  It runs here among
\* 추가 handlers that wait in their Mojang check.
MaxRaceOps == 4

RacePayloads == {<<"a">>, <<"B">>, <<"c">>}

RacePairs == {<<<<"a">>, <<"c">>>>, <<<<"B">>, <<"c">>>>, <<<<"c">>, <<"a">>>>}

RaceRename(r) ==
    /\ nops < MaxRaceOps
    /\ nops' = nops + 1
    /\ db' = r.db
    /\ reply' = r.reply
    /\ UNCHANGED <<verify_mc, mc_cache, now, aliases_up, suspended>>

RaceNext ==
    \/ \E payload \in RacePayloads, actor \in Actors :
           ConcBegin("add", <<payload>>, parse_block_to_player(split_into_blocks(payload)[1]),
                     TargetOf(db, payload), actor,
                     add_one_cmd(db, mc_cache, payload, Env(actor)))
    \/ ConcResume
    \/ \E pr \in RacePairs : RaceRename(nickchange_cmd(db, pr[1], pr[2], now))

RaceSpec == ConcInit /\ [][RaceNext]_vars

\* C36: 닉변 checks and writes in one step, whatever handlers are waiting.  A
\* 닉변 that goes through found the player at old and the new id free right
\* before its writes and leaves the player at new and not at old; a 닉변 onto
\* an id that is stored at that moment changes nothing, so of two 닉변 onto the
\* same new id the second does not go through
C36_RenameIsOneStep ==
    [][(nops' = nops + 1 /\ suspended' = suspended /\ reply'.cmd = "nickchange") =>
          /\ RenameOk(reply') =>
                 /\ Exists(db.players, OldId(reply'))
                 /\ ~Exists(db.players, NewId(reply'))
                 /\ ~Exists(db'.players, OldId(reply'))
                 /\ Exists(db'.players, NewId(reply'))
                 /\ DOMAIN db'.players =
                        ((DOMAIN db.players) \ {OldId(reply')}) \cup {NewId(reply')}
          /\ Exists(db.players, NewId(reply')) =>
                 /\ ~RenameOk(reply')
                 /\ db' = db]_vars

\* two players were renamed onto the same id one after the other: the first
\* 닉변 went through, the second was refused and its player is still stored
C36_Witness ==
    /\ reply.cmd = "nickchange"
    /\ reply.msg = "already_exists"
    /\ Exists(db.players, OldId(reply))
    /\ Exists(db.players, NewId(reply))
    /\ \E k \in DOMAIN db.aliases :
           k # OldId(reply) /\ db.aliases[k].current = NewId(reply)

\* ------------------------------------------------------ parsing of blocks
\* parse_block_to_player applied to one block at a time.  A narrative block is
\* a header followed by the pitch tokens, on the header line or on the next
\* line; a delimited line is the first n of six fields.  The draft is kept in
\* reply.out and the parts the block was built from in reply.args.
MaxParseOps == 2

ParseHeaders ==
    {<<"a">>, <<"a", " ", "(", "S", ")">>, <<"a", " ", "[", "R", "e", "d", "]">>, <<"a", " ", "(", "S", ")", " ", "[", "R", "e", "d", "]">>, <<"a", " ", "[", "R", "e", "d", "]", " ", "(", "S", ")">>,
     <<"a", "(", "S", ")", "[", "R", "e", "d", "]">>, <<"a", "[", "R", "e", "d", "]", "(", "S", ")">>}

ParsePitchLists ==
    {<<>>, <<<<"F">>>>, <<<<"F", "(", "3", "0", ")">>>>, <<<<"F", "(", "3", "0", ")">>, <<"F", "(", "4", "0", ")">>>>, <<<<"F", "(", "4", "0", ")">>, <<"F", "(", "3", "0", ")">>>>,
     <<<<"F", "(", "3", "0", ")">>, <<"S">>, <<"F", "(", "4", "0", ")">>>>, <<<<"F">>, <<"F", "(", "4", "0", ")">>>>, <<<<"S", "(", "1", "0", ")">>, <<"F", "(", "3", "0", ")">>>>}

ParseSeparators == {<<" ">>, <<"\n">>}

\* sep.join(parts)
RECURSIVE JoinWith(_, _)
JoinWith(parts, sep) ==
    IF parts = <<>> THEN <<>>
    ELSE IF Len(parts) = 1 THEN parts[1]
    ELSE parts[1] \o sep \o JoinWith(Tail(parts), sep)

NarrativeText(header, toks, sep) ==
    IF toks = <<>> THEN header ELSE header \o sep \o JoinWords(toks)

\* nickname|name|team|position|pitches|form, cut after the n-th field
PipeText(n, toks) ==
    JoinWith(SubSeq(<<<<"a">>, <<"a">>, <<"R", "e", "d">>, <<"P">>, JoinWith(toks, <<",">>), <<"S">>>>, 1, n),
             <<"|">>)

Parsed(kind, args, text) ==
    /\ nops < MaxParseOps
    /\ nops' = nops + 1
    /\ reply' = [cmd |-> kind, args |-> args, msg |-> text,
                 out |-> parse_block_to_player(split_into_blocks(text)[1])]
    /\ UNCHANGED <<db, verify_mc, mc_cache, now, aliases_up, suspended>>

ParseNext ==
    \/ \E header \in ParseHeaders, toks \in ParsePitchLists, sep \in ParseSeparators :
           Parsed("narrative", <<header, toks, sep>>, NarrativeText(header, toks, sep))
    \/ \E n \in 2..6, toks \in ParsePitchLists :
           Parsed("pipe", <<n, toks>>, PipeText(n, toks))

ParseSpec == Init /\ [][ParseNext]_vars

\* the pitch tokens the parsed block states, normalized, in textual order
Stated(r) ==
    IF r.cmd = "narrative" THEN NormalizeAll(r.args[2])
    ELSE IF r.cmd = "pipe" /\ r.args[1] >= 5 THEN NormalizeAll(r.args[2])
    ELSE <<>>

\* the last entry of list with the base name of p
LastOf(list, p) ==
    list[CHOOSE i \in 1..Len(list) :
             /\ pitch_base_name(list[i]) = pitch_base_name(p)
             /\ \A j \in (i + 1)..Len(list) :
                    pitch_base_name(list[j]) # pitch_base_name(p)]

\* C37: the pitches of a draft are the stated pitches without repetition of a
\* base name, each with the power of its last statement in the text: a block
\* that states a pitch twice yields one entry for it, with the later power
C37_DraftKeepsLastOccurrence ==
    reply.cmd \in {"narrative", "pipe"} =>
        /\ UniqueBases(reply.out.pitch_types)
        /\ \A i \in 1..Len(Stated(reply)) :
               LastOf(Stated(reply), Stated(reply)[i]) \in Members(reply.out.pitch_types)

\* a block that states the pitch F with the power 30 and then with 40
C37_Witness ==
    /\ reply.cmd = "narrative"
    /\ reply.args[2] = <<<<"F", "(", "3", "0", ")">>, <<"F", "(", "4", "0", ")">>>>
    /\ reply.out.nickname = <<"a">>
    /\ <<"F", "(", "4", "0", ")">> \in Members(reply.out.pitch_types)

\* -------------------------------------- delimited lines at the call sites
\* 추가, 등록 and 가져오기파일 given the first two to six fields of one delimited
\* line for the player a, and a narrative block that stores a with an arm
\* angle and a pitch
PipePayloads == {PipeText(n, <<<<"F", "(", "3", "0", ")">>>>) : n \in 2..6} \cup {<<"a", " ", "(", "U", ")", "\n", "K">>}

PipeNext ==
    \/ \E payload \in PipePayloads :
           VerifyStep(add_one_cmd(db, mc_cache, payload, Env("u1")))
    \/ \E payload \in PipePayloads :
           VerifyStep(bulk_register_cmd(db, mc_cache, payload, Env("u1")))
    \/ \E args \in {MODE_SKIP, MODE_OVERWRITE}, text \in PipePayloads :
           VerifyStep(import_file_cmd(db, mc_cache, args, text, Env("u1")))

PipeSpec == Init /\ [][PipeNext]_vars

\* the fields of the delimited line that reply r answers
FieldsGiven(r) == SplitOn(BlocksGiven(r)[1][1], "|")

\* r answers a payload of one delimited line
PipeGiven(r) ==
    /\ BatchDone(r)
    /\ Len(BlocksGiven(r)) = 1
    /\ Len(BlocksGiven(r)[1]) = 1
    /\ Contains(BlocksGiven(r)[1][1], "|")

\* C38: a delimited line of fewer than six fields is accepted by 추가, 등록 and
\* 가져오기파일, and a missing trailing field is not specified: it is no format
\* error, a stored player keeps the value of every missing field, and a player
\* created from the line gets the default of every missing field
C38_ShortLineAccepted ==
    [][(nops' = nops + 1 /\ PipeGiven(reply')
            /\ normalize_nick(FieldsGiven(reply')[1]) # <<>>) =>
          LET n == Len(FieldsGiven(reply'))
              id == resolve_nick(db, FieldsGiven(reply')[1])
          IN /\ reply'.out.errors = <<>>
             /\ Exists(db.players, id) =>
                    /\ Exists(db'.players, id)
                    /\ n < 3 => db'.players[id].team = db.players[id].team
                    /\ n < 4 => db'.players[id].position = db.players[id].position
                    /\ n < 5 => db'.players[id].pitch_types = db.players[id].pitch_types
                    /\ n < 6 => db'.players[id].form = db.players[id].form
             /\ ~Exists(db.players, id) =>
                    /\ Exists(db'.players, id)
                    /\ n < 3 => db'.players[id].team = Free
                    /\ n < 4 => db'.players[id].position = NA
                    /\ n < 5 => db'.players[id].pitch_types = <<>>
                    /\ n < 6 => db'.players[id].form = <<>>]_vars

\* 추가 was given a line of three fields and reported it as an error
C38_Witness ==
    /\ PipeGiven(reply)
    /\ reply.cmd = "add"
    /\ Len(FieldsGiven(reply)) = 3
    /\ reply.out.errors = <<1>>
    /\ reply.out.created = <<>>
    /\ reply.out.updated = <<>>

\* C39: a narrative header yields the same draft whichever of the arm angle
\* in parentheses and the team in brackets comes first: the draft has the
\* identifier, the arm angle and the team the header states, and its pitch
\* list holds stated pitches only, so neither marker is read as a pitch
C39_HeaderOrderIrrelevant ==
    reply.cmd = "narrative" =>
        /\ reply.out.nickname = <<"a">>
        /\ reply.out.form = (IF Contains(reply.args[1], "(") THEN <<"S">> ELSE <<>>)
        /\ reply.out.team = (IF Contains(reply.args[1], "[") THEN Red ELSE None)
        /\ Members(reply.out.pitch_types) \subseteq Members(Stated(reply))

\* a header with the team before the arm angle, followed by a pitch, was parsed
C39_Witness ==
    /\ reply.cmd = "narrative"
    /\ reply.args[1] = <<"a", " ", "[", "R", "e", "d", "]", " ", "(", "S", ")">>
    /\ reply.args[2] = <<<<"F", "(", "3", "0", ")">>>>
    /\ reply.out.nickname = <<"a">>
    /\ reply.out.team = Red
    /\ <<"F", "(", "3", "0", ")">> \in Members(reply.out.pitch_types)

\* ------------------------------------------- is_mc_username in flight
\* is_mc_username reads mc_cache, then awaits get_http_session() and the HTTP
\* request, and writes the verdict when the answer arrives.  Calls made by
\* different handlers interleave at these awaits; a call in flight is an
\* element [key, call] of suspended.
MaxLookupOps == 3

LookupNicks == {<<"a">>, <<" ", "A">>, <<"B">>}

LookupStatuses == {"200", "404", "timeout"}

\* the call up to its first await: the answer at once with VERIFY_MC unset, for
\* a blank handle and for a handle in mc_cache, a request otherwise
LookupBegin(nick) ==
    /\ nops < MaxLookupOps
    /\ nops' = nops + 1
    /\ IF ~verify_mc \/ normalize_nick(nick) = <<>> \/ Exists(mc_cache, normalize_nick(nick))
       THEN /\ reply' = [Reply("lookup", <<nick>>, "no_request") EXCEPT
                            !.out = is_mc_username(verify_mc, mc_cache, nick, AllValid).valid]
            /\ UNCHANGED suspended
       ELSE /\ suspended' = suspended \cup {[key |-> normalize_nick(nick), call |-> nops]}
            /\ UNCHANGED reply
    /\ UNCHANGED <<db, verify_mc, mc_cache, now, aliases_up>>

\* the answer of the request of call h arrives: mc_cache[key] is written
LookupEnd(h, status) ==
    /\ suspended' = suspended \ {h}
    /\ mc_cache' = DocSet(mc_cache, h.key, status = "200")
    /\ reply' = [Reply("lookup", <<h.key>>, "answered") EXCEPT !.out = (status = "200")]
    /\ UNCHANGED <<db, verify_mc, now, nops, aliases_up>>

LookupNext ==
    \/ \E nick \in LookupNicks : LookupBegin(nick)
    \/ \E h \in suspended, status \in LookupStatuses : LookupEnd(h, status)

LookupSpec == VerifyInit /\ [][LookupNext]_vars

\* C40: mc_cache is write-once for each normalized handle.  A verdict that is
\* stored never changes, and a call for a handle with a stored verdict makes
\* no request and returns the stored verdict, so that a handle whose first
\* lookup timed out is invalid in every later call
C40_CacheIsWriteOnce ==
    [][/\ \A key \in DOMAIN mc_cache :
              key \in DOMAIN mc_cache' /\ mc_cache'[key] = mc_cache[key]
       /\ \A h \in suspended' \ suspended : ~Exists(mc_cache, h.key)
       /\ (nops' = nops + 1 /\ suspended' = suspended /\ verify_mc
               /\ reply'.cmd = "lookup" /\ normalize_nick(reply'.args[1]) # <<>>) =>
              /\ reply'.msg = "no_request"
              /\ Exists(mc_cache, normalize_nick(reply'.args[1]))
              /\ reply'.out = mc_cache[normalize_nick(reply'.args[1])]]_vars

\* a lookup of a handle whose first request timed out was answered from
\* mc_cache as invalid, while another request is still in flight
C40_Witness ==
    /\ reply.cmd = "lookup"
    /\ reply.msg = "no_request"
    /\ Exists(mc_cache, normalize_nick(reply.args[1]))
    /\ reply.out = FALSE
    /\ suspended # {}

====
